---- MODULE Spec2Model ----
(***************************************************************************)
(* A model of rlox, a tree-walking interpreter: the Scanner, the           *)
(* TokenStream and the recursive-descent Parser, the EnvironmentStack and  *)
(* the Interpreter.  Every operator below is translated from the Rust     *)
(* source it is named after.                                               *)
(***************************************************************************)
EXTENDS Integers, Sequences, FiniteSets, TLC

VARIABLES
    environments,   \* Interpreter.environments: EnvironmentStack.stack, index 1 = root
    output,         \* what print! has written
    call,           \* the last operation performed, its arguments, pre-state and result
    evals,          \* number of eval calls made on the current Interpreter
    state,          \* LoxState of the REPL: command_count and had_error
    scanner,        \* the Scanner of the line being executed
    pc,             \* the position of exec_line
    lexed,          \* Option of the Result of scan_tokens for the line
    parsed,         \* Option of the Result of parse for the line
    token_stream    \* a TokenStream whose operations are called one by one

vars ==
    <<environments, output, call, evals, state, scanner, pc, lexed, parsed, token_stream>>

\* The variables of the REPL's front end.
lineVars == <<state, scanner, pc, lexed, parsed, token_stream>>

(***************************************************************************)
(* Bounds of the model.                                                    *)
(***************************************************************************)
MaxDepth == 3       \* scopes on the EnvironmentStack when an operation starts
MaxIter == 3        \* loop iterations one eval may run
MaxEvals == 3       \* eval calls on one Interpreter
MaxLines == 2       \* lines the REPL reads

(***************************************************************************)
(* Object (interpreter/object.rs)                                          *)
(***************************************************************************)
ObjNumber(n) == [t |-> "Number", n |-> n]
ObjString(s) == [t |-> "String", s |-> s]
ObjBoolean(b) == [t |-> "Boolean", b |-> b]
ObjNaN == [t |-> "NaN"]
ObjNil == [t |-> "Nil"]

is_truthy(o) ==
    CASE o.t = "String" -> o.s # ""
      [] o.t = "Number" -> o.n # 0
      [] o.t = "Boolean" -> o.b
      [] o.t = "NaN" -> FALSE
      [] o.t = "Nil" -> FALSE

is_falsy(o) == ~is_truthy(o)

is_equal(o1, o2) ==
    CASE o1.t = "String" /\ o2.t = "String" -> o1.s = o2.s
      [] o1.t = "Number" /\ o2.t = "Number" -> o1.n = o2.n
      [] o1.t = "Boolean" /\ o2.t = "Boolean" -> o1.b = o2.b
      [] o1.t = "NaN" /\ o2.t = "NaN" -> FALSE
      [] o1.t = "Nil" /\ o2.t = "Nil" -> TRUE
      [] OTHER -> FALSE

is_not_equal(o1, o2) == ~is_equal(o1, o2)

\* impl Display for Object.  Numbers of the model are integers.
ObjDisplay(o) ==
    CASE o.t = "String" -> o.s
      [] o.t = "Number" -> ToString(o.n)
      [] o.t = "Boolean" -> IF o.b THEN "true" ELSE "false"
      [] o.t = "NaN" -> "NaN"
      [] o.t = "Nil" -> "nil"

(***************************************************************************)
(* RuntimeError (interpreter/runtime_error.rs) and Result                  *)
(***************************************************************************)
FileLocation(line, column) == [line |-> line, column |-> column]

\* RuntimeError::new: no interrupt tag.
RuntimeError(msg, line, column) ==
    [msg |-> msg, line |-> line, column |-> column, interrupt |-> "None"]

break_loop ==
    [msg |-> "break outside of a loop", line |-> 0, column |-> 0,
     interrupt |-> "Break"]

continue_loop ==
    [msg |-> "continue outside of a loop", line |-> 0, column |-> 0,
     interrupt |-> "Continue"]

Ok(v) == [ok |-> TRUE, value |-> v]
Err(e) == [ok |-> FALSE, err |-> e]

(***************************************************************************)
(* Environment (interpreter/environment.rs): one scope, a map from names   *)
(* to Objects.  The scopes of an EnvironmentStack have no enclosing        *)
(* Environment, so the enclosing branches of get/assign/is_defined are     *)
(* never taken.                                                            *)
(***************************************************************************)
EnvNew == [n \in {} |-> ObjNil]

MapInsert(m, k, v) == [n \in (DOMAIN m) \cup {k} |-> IF n = k THEN v ELSE m[n]]
MapRemove(m, k) == [n \in (DOMAIN m) \ {k} |-> m[n]]

is_locally_defined(env, name) == name \in DOMAIN env

EnvIsDefined(env, name) == is_locally_defined(env, name)

err_already_defined(loc, name) ==
    RuntimeError("variable " \o name \o " already defined", loc.line, loc.column)

err_not_defined(loc, name) ==
    RuntimeError("variable " \o name \o " not defined", loc.line, loc.column)

EnvGet(env, loc, name) ==
    IF is_locally_defined(env, name) THEN Ok(env[name])
    ELSE Err(err_not_defined(loc, name))

\* Each Environment operation returns the scope afterwards and the Result.
EnvDefine(env, loc, name, value) ==
    IF is_locally_defined(env, name)
    THEN [env |-> env, res |-> Err(err_already_defined(loc, name))]
    ELSE LET e2 == MapInsert(env, name, value)
         IN  [env |-> e2, res |-> EnvGet(e2, loc, name)]

EnvAssign(env, loc, name, value) ==
    IF is_locally_defined(env, name)
    THEN LET e2 == MapInsert(env, name, value)
         IN  [env |-> e2, res |-> EnvGet(e2, loc, name)]
    ELSE [env |-> env, res |-> Err(err_not_defined(loc, name))]

EnvDelete(env, loc, name) ==
    IF ~EnvIsDefined(env, name)
    THEN [env |-> env, res |-> Err(err_not_defined(loc, name))]
    ELSE LET e2 == MapRemove(env, name)
         IN  [env |-> e2, res |-> EnvGet(e2, loc, name)]

(***************************************************************************)
(* EnvironmentStack (interpreter/environment_stack.rs).  Each operation    *)
(* returns the stack afterwards and the Result.                            *)
(***************************************************************************)
StackNew == <<EnvNew>>

enter_scope(stack) == Append(stack, EnvNew)

\* leave_scope without the len() == 1 test: the root scope is popped too.
leave_scope_Unguarded(stack, loc) ==
    [stack |-> SubSeq(stack, 1, Len(stack) - 1), res |-> Ok(ObjNil)]

leave_scope(stack, loc) ==
    IF Len(stack) = 1
    THEN [stack |-> stack,
          res |-> Err(RuntimeError("cannot leave global scope", loc.line, loc.column))]
    ELSE [stack |-> SubSeq(stack, 1, Len(stack) - 1), res |-> Ok(ObjNil)]

define_global(stack, loc, name, value) ==
    IF Len(stack) >= 1
    THEN LET r == EnvDefine(stack[1], loc, name, value)
         IN  [stack |-> [stack EXCEPT ![1] = r.env], res |-> r.res]
    ELSE [stack |-> stack,
          res |-> Err(RuntimeError(
                     "cannot retrieve global environment for variable: " \o name, 0, 0))]

\* define with first_mut() in place of last_mut(): the root scope is the target.
define_IntoRoot(stack, loc, name, value) ==
    LET r == EnvDefine(stack[1], loc, name, value)
    IN  [stack |-> [stack EXCEPT ![1] = r.env], res |-> r.res]

define(stack, loc, name, value) ==
    IF Len(stack) >= 1
    THEN LET r == EnvDefine(stack[Len(stack)], loc, name, value)
         IN  [stack |-> [stack EXCEPT ![Len(stack)] = r.env], res |-> r.res]
    ELSE [stack |-> stack,
          res |-> Err(RuntimeError(
                     "cannot retrieve environment for variable: " \o name,
                     loc.line, loc.column))]

\* for env in self.stack.iter().rev(): i runs from Len(stack) down to 1.
RECURSIVE GetFrom(_, _, _, _)
GetFrom(stack, i, loc, name) ==
    IF i = 0
    THEN Err(RuntimeError("undefined variable: " \o name, loc.line, loc.column))
    ELSE LET r == EnvGet(stack[i], loc, name)
         IN  IF r.ok THEN Ok(r.value) ELSE GetFrom(stack, i - 1, loc, name)

get(stack, loc, name) == GetFrom(stack, Len(stack), loc, name)

RECURSIVE AssignFrom(_, _, _, _, _)
AssignFrom(stack, i, loc, name, value) ==
    IF i = 0
    THEN [stack |-> stack,
          res |-> Err(RuntimeError("undefined variable: " \o name, loc.line, loc.column))]
    ELSE LET r == EnvAssign(stack[i], loc, name, value)
         IN  IF r.res.ok
             THEN [stack |-> [stack EXCEPT ![i] = r.env], res |-> Ok(value)]
             ELSE AssignFrom(stack, i - 1, loc, name, value)

\* assign with iter_mut() in place of iter_mut().rev(): the outermost scope
\* that defines name is the target.
RECURSIVE AssignUp(_, _, _, _, _)
AssignUp(stack, i, loc, name, value) ==
    IF i > Len(stack)
    THEN [stack |-> stack,
          res |-> Err(RuntimeError("undefined variable: " \o name, loc.line, loc.column))]
    ELSE LET r == EnvAssign(stack[i], loc, name, value)
         IN  IF r.res.ok
             THEN [stack |-> [stack EXCEPT ![i] = r.env], res |-> Ok(value)]
             ELSE AssignUp(stack, i + 1, loc, name, value)

assign_Outermost(stack, loc, name, value) == AssignUp(stack, 1, loc, name, value)

assign(stack, loc, name, value) == AssignFrom(stack, Len(stack), loc, name, value)

delete(stack, loc, name) ==
    IF Len(stack) >= 1
    THEN IF EnvIsDefined(stack[Len(stack)], name)
         THEN LET r == EnvDelete(stack[Len(stack)], loc, name)
              IN  [stack |-> [stack EXCEPT ![Len(stack)] = r.env], res |-> r.res]
         ELSE [stack |-> stack,
               res |-> Err(RuntimeError("undefined variable: " \o name,
                                        loc.line, loc.column))]
    ELSE [stack |-> stack,
          res |-> Err(RuntimeError(
                     "cannot retrieve environment for variable: " \o name,
                     loc.line, loc.column))]

is_defined(stack, name) == \E i \in 1..Len(stack) : EnvIsDefined(stack[i], name)

(***************************************************************************)
(* Literal, Token (lexer/literal.rs, lexer/token.rs).  A source is a       *)
(* sequence of characters, each a one-character string; a lexeme and an    *)
(* identifier's text are strings.                                          *)
(***************************************************************************)
LitIdentifier(name) == [t |-> "Identifier", name |-> name]
LitString(s) == [t |-> "String", s |-> s]
\* Literal::Number of a lexeme without a fractional part: the sources of the
\* model hold whole numbers only.
LitNumber(n) == [t |-> "Number", n |-> n]
LitBoolean(b) == [t |-> "Boolean", b |-> b]
LitNil == [t |-> "Nil"]

Token(token_type, lexeme, literal, line, column) ==
    [token_type |-> token_type, lexeme |-> lexeme, literal |-> literal,
     line |-> line, column |-> column]

LexerError(msg, line, column) == [msg |-> msg, line |-> line, column |-> column]

\* The char peek and peek_next return at the end of the source ('\0').
Nul == "NUL"

Digits == {"0", "1", "2", "3", "4", "5", "6", "7", "8", "9"}
Lower == {"a", "b", "c", "d", "e", "f", "g", "h", "i", "j", "k", "l", "m",
          "n", "o", "p", "q", "r", "s", "t", "u", "v", "w", "x", "y", "z"}
Upper == {"A", "B", "C", "D", "E", "F", "G", "H", "I", "J", "K", "L", "M",
          "N", "O", "P", "Q", "R", "S", "T", "U", "V", "W", "X", "Y", "Z"}

is_space(c) == c = " " \/ c = "\t"
is_digit(c) == c \in Digits
is_alpha(c) == c \in Lower \/ c \in Upper \/ c = "_"
is_alphanumeric(c) == is_alpha(c) \/ is_digit(c)

\* The string made of the characters of a sequence.
RECURSIVE Text(_)
Text(chars) == IF chars = <<>> THEN "" ELSE Head(chars) \o Text(Tail(chars))

\* str::replace on a sequence of characters: every non-overlapping match of
\* from, left to right.
RECURSIVE Replace(_, _, _)
Replace(chars, from, to) ==
    IF Len(chars) < Len(from) THEN chars
    ELSE IF SubSeq(chars, 1, Len(from)) = from
         THEN to \o Replace(SubSeq(chars, Len(from) + 1, Len(chars)), from, to)
         ELSE <<Head(chars)>> \o Replace(Tail(chars), from, to)

\* str::parse of a run of digits.
RECURSIVE ParseDigits(_, _)
ParseDigits(chars, acc) ==
    IF chars = <<>> THEN acc
    ELSE ParseDigits(Tail(chars),
                     10 * acc + (CHOOSE d \in 0..9 : ToString(d) = Head(chars)))

(***************************************************************************)
(* Scanner (lexer/scanner.rs).  start and current count characters from 0. *)
(* panic records that advance was called at the end of the source, where   *)
(* chars().nth(current).unwrap() panics.                                   *)
(***************************************************************************)
ScannerNew(source) ==
    [source |-> source, start |-> 0, current |-> 0, line |-> 1, column |-> 0,
     tokens |-> <<>>, panic |-> FALSE]

scan_is_at_end(sc) == sc.current >= Len(sc.source)

scan_peek(sc) == IF scan_is_at_end(sc) THEN Nul ELSE sc.source[sc.current + 1]

scan_peek_next(sc) ==
    IF sc.current + 1 >= Len(sc.source) THEN Nul ELSE sc.source[sc.current + 2]

advance(sc) ==
    IF scan_is_at_end(sc) \/ sc.panic THEN [sc EXCEPT !.panic = TRUE]
    ELSE [sc EXCEPT !.current = @ + 1, !.column = @ + 1]

\* &self.source[from..to]
Slice(sc, from, to) == SubSeq(sc.source, from + 1, to)

PushToken(sc, token_type, lexeme, literal) ==
    [sc EXCEPT !.tokens = Append(@, Token(token_type, lexeme, literal,
                                          sc.line, sc.column))]

add_token(sc, token_type) == PushToken(sc, token_type, "", LitNil)

\* match_next: the scanner afterwards and whether the char matched.
match_next(sc, expected) ==
    IF scan_is_at_end(sc) THEN [sc |-> sc, matched |-> FALSE]
    ELSE IF sc.source[sc.current + 1] # expected THEN [sc |-> sc, matched |-> FALSE]
    ELSE [sc |-> [sc EXCEPT !.current = @ + 1, !.column = @ + 1], matched |-> TRUE]

\* add_token of one of two kinds, by match_next('=').
OneOrTwo(sc, two, one) ==
    LET m == match_next(sc, "=")
    IN  add_token(m.sc, IF m.matched THEN two ELSE one)

\* A loop that does not count the nested openings.
RECURSIVE BlockCommentLoop_Flat(_, _)
BlockCommentLoop_Flat(sc, depth) ==
    IF depth > 0 /\ ~scan_is_at_end(sc) /\ ~sc.panic
    THEN IF scan_peek(sc) = "*" /\ scan_peek_next(sc) = "/"
         THEN BlockCommentLoop_Flat(advance(advance(sc)), depth - 1)
         ELSE IF scan_peek(sc) = "\n"
         THEN BlockCommentLoop_Flat(advance([sc EXCEPT !.line = @ + 1, !.column = 0]), depth)
         ELSE BlockCommentLoop_Flat(advance(sc), depth)
    ELSE sc

RECURSIVE BlockCommentLoop(_, _)
BlockCommentLoop(sc, depth) ==
    IF depth > 0 /\ ~scan_is_at_end(sc) /\ ~sc.panic
    THEN IF scan_peek(sc) = "/" /\ scan_peek_next(sc) = "*"
         THEN BlockCommentLoop(advance(advance(sc)), depth + 1)
         ELSE IF scan_peek(sc) = "*" /\ scan_peek_next(sc) = "/"
         THEN BlockCommentLoop(advance(advance(sc)), depth - 1)
         ELSE IF scan_peek(sc) = "\n"
         THEN BlockCommentLoop(advance([sc EXCEPT !.line = @ + 1, !.column = 0]), depth)
         ELSE BlockCommentLoop(advance(sc), depth)
    ELSE sc

block_comment(sc) ==
    LET s1 == BlockCommentLoop(sc, 1)
    IN  PushToken(s1, "Comment", Text(Slice(s1, s1.start, s1.current)), LitNil)

RECURSIVE LineCommentLoop(_)
LineCommentLoop(sc) ==
    IF scan_peek(sc) # "\n" /\ ~scan_is_at_end(sc) THEN LineCommentLoop(advance(sc))
    ELSE sc

line_comment(sc) ==
    LET s1 == LineCommentLoop(sc)
    IN  PushToken(s1, "Comment", Text(Slice(s1, s1.start, s1.current)), LitNil)

newline(sc) ==
    LET s1 == IF scan_peek(sc) = "\n"
              THEN advance(PushToken(sc, "NewLine", "\r\n", LitNil))
              ELSE PushToken(sc, "NewLine", "\n", LitNil)
    IN  [s1 EXCEPT !.line = @ + 1, !.column = 0]

RECURSIVE WhitespaceLoop(_)
WhitespaceLoop(sc) == IF is_space(scan_peek(sc)) THEN WhitespaceLoop(advance(sc)) ELSE sc

whitespace(sc) ==
    LET s1 == WhitespaceLoop(sc)
    IN  PushToken(s1, "Whitespace", Text(Slice(s1, s1.start, s1.current)), LitNil)

RECURSIVE StringLoop(_)
StringLoop(sc) ==
    IF scan_peek(sc) # "\"" /\ ~scan_is_at_end(sc) /\ ~sc.panic
    THEN LET s1 == IF scan_peek(sc) = "\n"
                   THEN [sc EXCEPT !.line = @ + 1, !.column = 0] ELSE sc
             s2 == IF scan_peek(s1) = "\\" THEN advance(s1) ELSE s1
         IN  StringLoop(advance(s2))
    ELSE sc

\* The escapes of string(): the chain of replace calls on the text between
\* the quotes.
Unescape(chars) ==
    Replace(Replace(Replace(Replace(Replace(chars,
        <<"\\", "t">>, <<"\t">>),
        <<"\\", "n">>, <<"\n">>),
        <<"\\", "r">>, <<"\r">>),
        <<"\\", "\\">>, <<"\\">>),
        <<"\\">>, <<"\"">>)

\* string, number and identifier return the scanner and the Result.
string(sc) ==
    LET s1 == StringLoop(sc)
    IN  IF s1.panic THEN [sc |-> s1, res |-> Ok(ObjNil)]
        ELSE IF scan_is_at_end(s1)
        THEN [sc |-> s1,
              res |-> Err(LexerError("unterminated string", s1.line, s1.column))]
        ELSE LET s2 == advance(s1)
                 value == Text(Unescape(Slice(s2, s2.start + 1, s2.current - 1)))
             IN  [sc |-> PushToken(s2, "String", value, LitString(value)),
                  res |-> Ok(ObjNil)]

RECURSIVE DigitsLoop(_)
DigitsLoop(sc) == IF is_digit(scan_peek(sc)) THEN DigitsLoop(advance(sc)) ELSE sc

number(sc) ==
    LET s1 == DigitsLoop(sc)
        s2 == IF scan_peek(s1) = "." /\ is_digit(scan_peek_next(s1))
              THEN DigitsLoop(advance(s1)) ELSE s1
        whole == Slice(s1, s1.start, s1.current)
    IN  PushToken(s2, "Number", Text(Slice(s2, s2.start, s2.current)),
                  LitNumber(ParseDigits(whole, 0)))

RECURSIVE IdentifierLoop(_)
IdentifierLoop(sc) ==
    IF is_alphanumeric(scan_peek(sc)) THEN IdentifierLoop(advance(sc)) ELSE sc

\* The match of identifier() on the text.
KeywordType(text) ==
    CASE text = "and" -> "And"
      [] text = "class" -> "Class"
      [] text = "else" -> "Else"
      [] text = "false" -> "False"
      [] text = "for" -> "For"
      [] text = "fun" -> "Fun"
      [] text = "if" -> "If"
      [] text = "nil" -> "Nil"
      [] text = "or" -> "Or"
      [] text = "print" -> "Print"
      [] text = "return" -> "Return"
      [] text = "super" -> "Super"
      [] text = "this" -> "This"
      [] text = "true" -> "True"
      [] text = "var" -> "Var"
      [] text = "while" -> "While"
      [] OTHER -> "Identifier"

identifier(sc) ==
    LET s1 == IdentifierLoop(sc)
        text == Text(Slice(s1, s1.start, s1.current))
        token_type == KeywordType(text)
    IN  CASE token_type = "True" -> PushToken(s1, "True", "true", LitBoolean(TRUE))
          [] token_type = "False" -> PushToken(s1, "False", "false", LitBoolean(FALSE))
          [] OTHER -> PushToken(s1, token_type, text, LitIdentifier(text))

\* scan_token, called with start = current: the scanner afterwards and the
\* Result.
scan_token(sc) ==
    LET c == scan_peek(sc)
        s1 == advance(sc)
        done(s) == [sc |-> s, res |-> Ok(ObjNil)]
    IN  CASE c = "(" -> done(add_token(s1, "LeftParen"))
          [] c = ")" -> done(add_token(s1, "RightParen"))
          [] c = "{" -> done(add_token(s1, "LeftBrace"))
          [] c = "}" -> done(add_token(s1, "RightBrace"))
          [] c = "," -> done(add_token(s1, "Comma"))
          [] c = "." -> done(add_token(s1, "Dot"))
          [] c = "-" -> done(add_token(s1, "Minus"))
          [] c = "+" -> done(add_token(s1, "Plus"))
          [] c = ";" -> done(add_token(s1, "Semicolon"))
          [] c = "*" -> done(add_token(s1, "Star"))
          [] c = "!" -> done(OneOrTwo(s1, "BangEqual", "Bang"))
          [] c = "=" -> done(OneOrTwo(s1, "EqualEqual", "Equal"))
          [] c = "<" -> done(OneOrTwo(s1, "LessEqual", "Less"))
          [] c = ">" -> done(OneOrTwo(s1, "GreaterEqual", "Greater"))
          [] c = "/" ->
                LET m1 == match_next(s1, "/")
                    m2 == match_next(s1, "*")
                IN  IF m1.matched THEN done(line_comment(m1.sc))
                    ELSE IF m2.matched THEN done(block_comment(m2.sc))
                    ELSE done(add_token(s1, "Slash"))
          [] c = "\"" -> string(s1)
          [] is_digit(c) -> done(number(s1))
          [] is_alpha(c) -> done(identifier(s1))
          [] c = " " \/ c = "\t" -> done(whitespace(s1))
          [] c = "\r" \/ c = "\n" -> done(newline(s1))
          [] OTHER -> [sc |-> s1,
                       res |-> Err(LexerError("unknown token type", s1.line, s1.column))]

\* scan_tokens without the push after the loop.
PushEOF_Omitted(sc) == sc

\* The end of Scanner::scan_tokens: the EOF token.
PushEOF(sc) == PushToken(sc, "EOF", "", LitNil)

(***************************************************************************)
(* Expr (parser/expr.rs): one record per node, kind = the variant.         *)
(***************************************************************************)
ExprNumber(loc, n) == [kind |-> "Number", loc |-> loc, n |-> n]
ExprString(loc, s) == [kind |-> "String", loc |-> loc, s |-> s]
ExprBoolean(loc, b) == [kind |-> "Boolean", loc |-> loc, b |-> b]
ExprVariable(loc, v) == [kind |-> "Variable", loc |-> loc, name |-> v]
ExprNil(loc) == [kind |-> "Nil", loc |-> loc]
ExprGrouping(loc, e) == [kind |-> "Grouping", loc |-> loc, e |-> e]
ExprUnaryOp(loc, op, e) == [kind |-> "UnaryOp", loc |-> loc, op |-> op, e |-> e]
ExprBinaryOp(loc, e1, op, e2) ==
    [kind |-> "BinaryOp", loc |-> loc, e1 |-> e1, op |-> op, e2 |-> e2]
ExprPrint(loc, e) == [kind |-> "Print", loc |-> loc, e |-> e]
\* else_ is a sequence of zero or one Expr (Option<Box<Expr>>).
ExprIf(loc, condition, then, else_) ==
    [kind |-> "If", loc |-> loc, cond |-> condition, then |-> then, else_ |-> else_]
ExprLet(loc, name) == [kind |-> "Let", loc |-> loc, name |-> name]
ExprLetInit(loc, name, e) == [kind |-> "LetInit", loc |-> loc, name |-> name, e |-> e]
ExprProgram(loc, exprs) == [kind |-> "Program", loc |-> loc, exprs |-> exprs]
ExprBlock(loc, exprs) == [kind |-> "Block", loc |-> loc, exprs |-> exprs]
ExprWhile(loc, condition, body) ==
    [kind |-> "While", loc |-> loc, cond |-> condition, body |-> body]
ExprAssign(loc, name, e) == [kind |-> "Assign", loc |-> loc, name |-> name, e |-> e]

\* Expr::let_stmt: initializer is a sequence of zero or one Expr.
let_stmt(loc, name, e) ==
    IF e # <<>> THEN ExprLetInit(loc, name, e[1]) ELSE ExprLet(loc, name)

\* The Break and Continue nodes of the data model.  expr.rs declares no such
\* variants and Expr::accept has no arm for them: no Expr the parser builds
\* is one of these.  They stand for a direct call of Visitor::visit_break and
\* Visitor::visit_continue.
ExprBreak(loc) == [kind |-> "Break", loc |-> loc]
ExprContinue(loc) == [kind |-> "Continue", loc |-> loc]

\* Expr::literal
literal(loc, l) ==
    CASE l.t = "Number" -> ExprNumber(loc, l.n)
      [] l.t = "String" -> ExprString(loc, l.s)
      [] l.t = "Boolean" -> ExprBoolean(loc, l.b)
      [] l.t = "Nil" -> ExprNil(loc)
      [] l.t = "Identifier" -> ExprVariable(loc, l.name)

(***************************************************************************)
(* ParserError, BinaryOp, UnaryOp (parser/parser_error.rs, binary_op.rs,   *)
(* unary_op.rs)                                                            *)
(***************************************************************************)
ParserError(msg, line, column) == [msg |-> msg, line |-> line, column |-> column]

unexpected_token(token) ==
    ParserError("unexpected token: " \o token.token_type, token.line, token.column)

BinaryOp_from_token(token) ==
    CASE token.token_type = "Plus" -> Ok("Add")
      [] token.token_type = "Minus" -> Ok("Sub")
      [] token.token_type = "Star" -> Ok("Mul")
      [] token.token_type = "Slash" -> Ok("Div")
      [] token.token_type = "EqualEqual" -> Ok("Eq")
      [] token.token_type = "BangEqual" -> Ok("Ne")
      [] token.token_type = "Less" -> Ok("Lt")
      [] token.token_type = "LessEqual" -> Ok("Le")
      [] token.token_type = "Greater" -> Ok("Gt")
      [] token.token_type = "GreaterEqual" -> Ok("Ge")
      [] token.token_type = "LogicalAnd" -> Ok("LogicalAnd")
      [] token.token_type = "LogicalOr" -> Ok("LogicalOr")
      [] OTHER -> Err(unexpected_token(token))

UnaryOp_from_token(token) ==
    CASE token.token_type = "Minus" -> Ok("Neg")
      [] token.token_type = "Bang" -> Ok("Not")
      [] OTHER -> Err(unexpected_token(token))

(***************************************************************************)
(* TokenStream (parser/token_stream.rs).  An Option is a sequence of zero  *)
(* or one element.  failures and marks are logs, not fields of the struct:  *)
(* the errors that the statement loops of the parser met, in order, and    *)
(* the cursor at the points of the parse.                                  *)
(***************************************************************************)
None == <<>>
Some(x) == <<x>>

TokenStreamNew(tokens) ==
    [tokens |-> tokens, index |-> 0, failures |-> <<>>, marks |-> <<>>]

\* Vec::get
TokenAt(s, i) == IF i < Len(s.tokens) THEN Some(s.tokens[i + 1]) ELSE None

prev(s) == IF s.index = 0 THEN None ELSE TokenAt(s, s.index - 1)

peek(s) == TokenAt(s, s.index)

is_at_end(s) ==
    IF s.index >= Len(s.tokens) THEN TRUE
    ELSE peek(s)[1].token_type = "EOF"

\* next: the stream afterwards and the Option<&Token>.
next(s) ==
    IF is_at_end(s) THEN [s |-> s, token |-> None]
    ELSE [s |-> [s EXCEPT !.index = @ + 1], token |-> TokenAt(s, s.index)]

\* Vec::contains on a list of token types.
Contains(token_types, t) == \E i \in 1..Len(token_types) : token_types[i] = t

match_token(s, token_types) ==
    IF peek(s) # None /\ Contains(token_types, peek(s)[1].token_type)
    THEN [s |-> [s EXCEPT !.index = @ + 1], matched |-> TRUE]
    ELSE [s |-> s, matched |-> FALSE]

\* format!("{:?}", token_types)
RECURSIVE DebugItems(_)
DebugItems(token_types) ==
    IF Len(token_types) = 0 THEN ""
    ELSE IF Len(token_types) = 1 THEN token_types[1]
    ELSE token_types[1] \o ", " \o DebugItems(Tail(token_types))

DebugList(token_types) == "[" \o DebugItems(token_types) \o "]"

consume(s, token_types) ==
    LET n == next(s)
    IN  IF n.token # None
        THEN IF Contains(token_types, n.token[1].token_type)
             THEN [s |-> n.s, res |-> Ok(n.token[1])]
             ELSE [s |-> n.s,
                   res |-> Err(ParserError("expected one of " \o DebugList(token_types),
                                           n.token[1].line, n.token[1].column))]
        ELSE [s |-> n.s,
              res |-> Err(ParserError("expected one of " \o DebugList(token_types), 0, 0))]

\* FileLocation::from_loc of a token
TokenLoc(token) == FileLocation(token.line, token.column)

(***************************************************************************)
(* Parser (parser/parser.rs).  Every parse function takes the stream and   *)
(* returns the stream afterwards and the Result.                           *)
(***************************************************************************)
Done(s, v) == [s |-> s, res |-> Ok(v)]
Fail(s, e) == [s |-> s, res |-> Err(e)]

\* The log of an error met by a statement loop.
Failed(s, e) == [s EXCEPT !.failures = Append(@, e)]

\* The log of the cursor at a point of the parse: the start of an iteration
\* of a statement loop, the start and the end of a synchronize call.
Mark(s, point) == [s EXCEPT !.marks = Append(@, [point |-> point, index |-> s.index])]

Separators == <<"Comma", "Semicolon">>

RECURSIVE SynchronizeLoop(_)
SynchronizeLoop(s) ==
    IF ~is_at_end(s)
    THEN IF peek(s) # None /\ Contains(Separators, peek(s)[1].token_type) THEN s
         ELSE IF peek(s) # None /\ peek(s)[1].token_type \in
                    {"Class", "Fun", "Let", "For", "If", "While", "Print", "Return"}
         THEN s
         ELSE SynchronizeLoop(next(s).s)
    ELSE s

\* A synchronize that starts at the current token.
synchronize_NoAdvance(s) ==
    Mark(SynchronizeLoop(Mark(s, "synchronize")), "synchronized")

synchronize(s) ==
    Mark(SynchronizeLoop(next(Mark(s, "synchronize")).s), "synchronized")

\* Call(f, s) is the call f(s) of a parse function from inside a parse function.
\* let r = e; F(r): the value is bound once.
Let(e, F(_)) == F(e)

RECURSIVE Call(_, _)
RECURSIVE LogicalLoop(_, _, _)
RECURSIVE LeftAssoc(_, _, _)
RECURSIVE BlockLoop(_, _)

parse_primary(s) ==
    LET n == next(s)
    IN  IF n.token # None
        THEN LET token == n.token[1]
                 loc == TokenLoc(token)
             IN  CASE token.token_type \in
                          {"False", "True", "Nil", "Number", "String", "Identifier"} ->
                        Done(n.s, literal(loc, token.literal))
                   [] token.token_type = "LeftParen" ->
                        LET r == Call("parse_expr", n.s)
                        IN  IF ~r.res.ok THEN r
                            ELSE LET c == consume(r.s, <<"RightParen">>)
                                 IN  IF ~c.res.ok THEN c
                                     ELSE Done(c.s, ExprGrouping(loc, r.res.value))
                   [] OTHER ->
                        Fail(n.s, ParserError("expected expression",
                                              token.line, token.column))
        ELSE IF prev(s) # None
             THEN Fail(n.s, ParserError("expected expression",
                                        prev(s)[1].line, prev(s)[1].column))
             ELSE Fail(n.s, ParserError("expected expression", 0, 0))

parse_unary(s) ==
    IF peek(s) # None /\ peek(s)[1].token_type \in {"Bang", "Minus"}
    THEN LET loc == TokenLoc(peek(s)[1])
             n == next(s)
             operator == UnaryOp_from_token(n.token[1])
         IN  IF ~operator.ok THEN Fail(n.s, operator.err)
             ELSE LET r == Call("parse_unary", n.s)
                  IN  IF ~r.res.ok THEN r
                      ELSE Done(r.s, ExprUnaryOp(loc, operator.value, r.res.value))
    ELSE Call("parse_primary", s)

\* The operator tokens of a level of parse_equality .. parse_factor, and its
\* operand parser.
LevelTypes(level) ==
    CASE level = "equality" -> {"BangEqual", "EqualEqual"}
      [] level = "comparison" -> {"Greater", "GreaterEqual", "Less", "LessEqual"}
      [] level = "term" -> {"Minus", "Plus"}
      [] level = "factor" -> {"Slash", "Star"}

\* An operand parsed at the level of its operator.
Operand_SameLevel(s, level) ==
    CASE level = "equality" -> Call("parse_equality", s)
      [] level = "comparison" -> Call("parse_comparison", s)
      [] level = "term" -> Call("parse_term", s)
      [] level = "factor" -> Call("parse_factor", s)

Operand(s, level) ==
    CASE level = "equality" -> Call("parse_comparison", s)
      [] level = "comparison" -> Call("parse_term", s)
      [] level = "term" -> Call("parse_factor", s)
      [] level = "factor" -> Call("parse_unary", s)

\* The while-let loop of parse_equality .. parse_factor.
LeftAssoc(s, expr, level) ==
    IF peek(s) # None /\ peek(s)[1].token_type \in LevelTypes(level)
    THEN LET loc == TokenLoc(peek(s)[1])
             n == next(s)
             operator == BinaryOp_from_token(n.token[1])
         IN  IF ~operator.ok THEN Fail(n.s, operator.err)
             ELSE LET right == Operand(n.s, level)
                  IN  IF ~right.res.ok THEN right
                      ELSE LeftAssoc(right.s,
                                     ExprBinaryOp(loc, expr, operator.value,
                                                  right.res.value),
                                     level)
    ELSE Done(s, expr)

parse_factor(s) ==
    LET r == Call("parse_unary", s)
    IN  IF ~r.res.ok THEN r ELSE LeftAssoc(r.s, r.res.value, "factor")

parse_term(s) ==
    LET r == Call("parse_factor", s)
    IN  IF ~r.res.ok THEN r ELSE LeftAssoc(r.s, r.res.value, "term")

parse_comparison(s) ==
    LET r == Call("parse_term", s)
    IN  IF ~r.res.ok THEN r ELSE LeftAssoc(r.s, r.res.value, "comparison")

parse_equality(s) ==
    LET r == Call("parse_comparison", s)
    IN  IF ~r.res.ok THEN r ELSE LeftAssoc(r.s, r.res.value, "equality")

\* The while loop of parse_logical_or and parse_logical_and: the location is
\* that of the token after the operator.
LogicalLoop(s, expr, token_type) ==
    LET m == match_token(s, <<token_type>>)
    IN  IF m.matched
        THEN LET loc == TokenLoc(peek(m.s)[1])
                 operator == BinaryOp_from_token(prev(m.s)[1])
             IN  IF ~operator.ok THEN Fail(m.s, operator.err)
                 ELSE LET right == IF token_type = "LogicalOr"
                                   THEN Call("parse_logical_and", m.s)
                                   ELSE Call("parse_equality", m.s)
                      IN  IF ~right.res.ok THEN right
                          ELSE LogicalLoop(right.s,
                                           ExprBinaryOp(loc, expr, operator.value,
                                                        right.res.value),
                                           token_type)
        ELSE Done(s, expr)

parse_logical_and(s) ==
    LET r == Call("parse_equality", s)
    IN  IF ~r.res.ok THEN r ELSE LogicalLoop(r.s, r.res.value, "LogicalAnd")

parse_logical_or(s) ==
    LET r == Call("parse_logical_and", s)
    IN  IF ~r.res.ok THEN r ELSE LogicalLoop(r.s, r.res.value, "LogicalOr")

parse_assignment(s) ==
    LET loc == TokenLoc(peek(s)[1])
        r == Call("parse_logical_or", s)
    IN  IF ~r.res.ok THEN r
        ELSE LET m == match_token(r.s, <<"Equal">>)
             IN  IF m.matched
                 THEN LET value == Call("parse_assignment", m.s)
                      IN  IF ~value.res.ok THEN value
                          ELSE IF r.res.value.kind = "Variable"
                          THEN Done(value.s,
                                    ExprAssign(loc, r.res.value.name, value.res.value))
                          ELSE Fail(value.s,
                                    ParserError("invalid assignment target",
                                                loc.line, loc.column))
                 ELSE Done(r.s, r.res.value)

parse_expr(s) == Call("parse_assignment", s)

parse_stmt_let(s) ==
    LET loc == TokenLoc(peek(s)[1])
        c == consume(s, <<"Let">>)
    IN  IF ~c.res.ok THEN c
        ELSE LET name == consume(c.s, <<"Identifier">>)
             IN  IF ~name.res.ok THEN name
                 ELSE LET m == match_token(name.s, <<"Equal">>)
                      IN  IF m.matched
                          THEN LET e == Call("parse_expr", m.s)
                               IN  IF ~e.res.ok THEN e
                                   ELSE Done(e.s, let_stmt(loc, name.res.value.lexeme,
                                                           Some(e.res.value)))
                          ELSE Done(m.s, let_stmt(loc, name.res.value.lexeme, None))

parse_stmt_print(s) ==
    LET loc == TokenLoc(peek(s)[1])
        c == consume(s, <<"Print">>)
    IN  IF ~c.res.ok THEN c
        ELSE LET e == Call("parse_expr", c.s)
             IN  IF ~e.res.ok THEN e ELSE Done(e.s, ExprPrint(loc, e.res.value))

\* The optional branch after a matched token_type: the Result holds an Option.
OptionalStmt(s, token_type) ==
    LET m == match_token(s, <<token_type>>)
    IN  IF m.matched
        THEN LET e == Call("parse_stmt", m.s)
             IN  IF ~e.res.ok THEN e ELSE Done(e.s, Some(e.res.value))
        ELSE Done(m.s, None)

parse_stmt_if(s) ==
    LET loc == TokenLoc(peek(s)[1])
        c == consume(s, <<"If">>)
    IN  IF ~c.res.ok THEN c
        ELSE LET condition == Call("parse_expr", c.s)
             IN  IF ~condition.res.ok THEN condition
                 ELSE LET then_branch == Call("parse_stmt", condition.s)
                      IN  IF ~then_branch.res.ok THEN then_branch
                          ELSE LET else_branch == OptionalStmt(then_branch.s, "Else")
                               IN  IF ~else_branch.res.ok THEN else_branch
                                   ELSE Done(else_branch.s,
                                             ExprIf(loc, condition.res.value,
                                                    then_branch.res.value,
                                                    else_branch.res.value))

\* The while loop of parse_stmt_block: the Result holds the statements.  An
\* error of a statement or of its separator is dropped.
BlockLoop(s, exprs) ==
    IF peek(s)[1].token_type # "RightBrace"
    THEN IF is_at_end(s)
         THEN Fail(Mark(s, "parse_stmt_block"),
                   ParserError("expected '}'", peek(s)[1].line, peek(s)[1].column))
         ELSE LET r == Call("parse_stmt", Mark(s, "parse_stmt_block"))
              IN  IF ~r.res.ok
                  THEN BlockLoop(synchronize(Failed(r.s, r.res.err)), exprs)
                  ELSE IF prev(r.s) # None /\ prev(r.s)[1].token_type = "RightBrace"
                  THEN BlockLoop(r.s, Append(exprs, r.res.value))
                  ELSE IF peek(r.s) # None
                  THEN IF ~Contains(Separators, peek(r.s)[1].token_type)
                       THEN Done(r.s, Append(exprs, r.res.value))
                       ELSE LET c == consume(r.s, Separators)
                            IN  IF c.res.ok
                                THEN BlockLoop(c.s, Append(exprs, r.res.value))
                                ELSE BlockLoop(synchronize(Failed(c.s, c.res.err)),
                                               Append(exprs, r.res.value))
                  ELSE BlockLoop(r.s, Append(exprs, r.res.value))
    ELSE Done(s, exprs)

parse_stmt_block(s) ==
    LET loc == TokenLoc(peek(s)[1])
        c == consume(s, <<"LeftBrace">>)
    IN  IF ~c.res.ok THEN c
        ELSE LET b == BlockLoop(c.s, <<>>)
             IN  IF ~b.res.ok THEN b
                 ELSE LET e == consume(b.s, <<"RightBrace">>)
                      IN  IF ~e.res.ok THEN e
                          ELSE Done(e.s, ExprBlock(loc, b.res.value))

parse_stmt_while(s) ==
    LET loc == TokenLoc(peek(s)[1])
        c == consume(s, <<"While">>)
    IN  IF ~c.res.ok THEN c
        ELSE LET condition == Call("parse_expr", c.s)
             IN  IF ~condition.res.ok THEN condition
                 ELSE LET body == Call("parse_stmt", condition.s)
                      IN  IF ~body.res.ok THEN body
                          ELSE Done(body.s, ExprWhile(loc, condition.res.value,
                                                      body.res.value))

\* The three clauses of parse_stmt_for; the Result of the first and the third
\* holds an Option.
ForInitializer(s, loc) ==
    LET m == match_token(s, <<"Semicolon">>)
    IN  IF m.matched THEN Done(m.s, None)
        ELSE IF peek(m.s) # None
        THEN LET r == IF peek(m.s)[1].token_type = "Let"
                      THEN Call("parse_stmt_let", m.s) ELSE Call("parse_stmt_expr", m.s)
             IN  IF ~r.res.ok THEN r
                 ELSE LET c == consume(r.s, <<"Semicolon">>)
                      IN  IF ~c.res.ok THEN c ELSE Done(c.s, Some(r.res.value))
        ELSE Fail(m.s, ParserError("expected initializer", loc.line, loc.column))

ForCondition(s, loc) ==
    LET m == match_token(s, <<"Semicolon">>)
    IN  IF m.matched THEN Done(m.s, ExprBoolean(loc, TRUE))
        ELSE LET e == Call("parse_expr", m.s)
             IN  IF ~e.res.ok THEN e
                 ELSE LET c == consume(e.s, <<"Semicolon">>)
                      IN  IF ~c.res.ok THEN c ELSE Done(c.s, e.res.value)

ForIncrement(s) ==
    LET m == match_token(s, <<"RightParen">>)
    IN  IF m.matched THEN Done(m.s, None)
        ELSE LET e == Call("parse_expr", m.s)
             IN  IF ~e.res.ok THEN e ELSE Done(e.s, Some(e.res.value))

\* The desugaring at the end of parse_stmt_for.
ForDesugar(loc, initializer, condition, increment, body) ==
    LET body1 == IF increment # None
                 THEN ExprBlock(loc, <<body, increment[1]>>) ELSE body
        body2 == ExprWhile(loc, condition, body1)
    IN  IF initializer # None THEN ExprBlock(loc, <<initializer[1], body2>>)
        ELSE body2

parse_stmt_for(s) ==
    LET loc == TokenLoc(peek(s)[1])
        c1 == consume(s, <<"For">>)
    IN  IF ~c1.res.ok THEN c1
        ELSE LET c2 == consume(c1.s, <<"LeftParen">>)
    IN  IF ~c2.res.ok THEN c2
        ELSE LET initializer == ForInitializer(c2.s, loc)
    IN  IF ~initializer.res.ok THEN initializer
        ELSE LET condition == ForCondition(initializer.s, loc)
    IN  IF ~condition.res.ok THEN condition
        ELSE LET increment == ForIncrement(condition.s)
    IN  IF ~increment.res.ok THEN increment
        ELSE LET c3 == consume(increment.s, <<"RightParen">>)
    IN  IF ~c3.res.ok THEN c3
        ELSE LET body == Call("parse_stmt", c3.s)
    IN  IF ~body.res.ok THEN body
        ELSE Done(body.s, ForDesugar(loc, initializer.res.value, condition.res.value,
                                     increment.res.value, body.res.value))

parse_stmt_expr(s) ==
    LET expr == Call("parse_expr", s)
    IN  IF ~expr.res.ok THEN expr
        ELSE LET q == match_token(expr.s, <<"QuestionMark">>)
                 qq == match_token(expr.s, <<"DoubleQuestionMark">>)
             IN  IF q.matched
                 THEN LET loc == TokenLoc(peek(q.s)[1])
                          then_branch == Call("parse_stmt", q.s)
                      IN  IF ~then_branch.res.ok THEN then_branch
                          ELSE LET else_branch == OptionalStmt(then_branch.s, "Colon")
                               IN  IF ~else_branch.res.ok THEN else_branch
                                   ELSE Done(else_branch.s,
                                             ExprIf(loc, expr.res.value,
                                                    then_branch.res.value,
                                                    else_branch.res.value))
                 ELSE IF qq.matched
                 THEN LET loc == TokenLoc(peek(qq.s)[1])
                          if_nil == Call("parse_stmt", qq.s)
                      IN  IF ~if_nil.res.ok THEN if_nil
                          ELSE Done(if_nil.s,
                                    ExprIf(loc,
                                           ExprBinaryOp(loc, expr.res.value, "Eq",
                                                        ExprNil(loc)),
                                           if_nil.res.value, Some(expr.res.value)))
                 ELSE Done(expr.s, expr.res.value)

parse_stmt(s) ==
    IF peek(s) # None
    THEN CASE peek(s)[1].token_type = "Print" -> Call("parse_stmt_print", s)
           [] peek(s)[1].token_type = "If" -> Call("parse_stmt_if", s)
           [] peek(s)[1].token_type = "Let" -> Call("parse_stmt_let", s)
           [] peek(s)[1].token_type = "LeftBrace" -> Call("parse_stmt_block", s)
           [] peek(s)[1].token_type = "While" -> Call("parse_stmt_while", s)
           [] peek(s)[1].token_type = "For" -> Call("parse_stmt_for", s)
           [] OTHER -> Call("parse_stmt_expr", s)
    ELSE Fail(s, ParserError("unexpected end of file",
                             prev(s)[1].line, prev(s)[1].column))

Call(f, s) ==
    CASE f = "parse_stmt" -> parse_stmt(s)
      [] f = "parse_expr" -> parse_expr(s)
      [] f = "parse_primary" -> parse_primary(s)
      [] f = "parse_unary" -> parse_unary(s)
      [] f = "parse_factor" -> parse_factor(s)
      [] f = "parse_term" -> parse_term(s)
      [] f = "parse_comparison" -> parse_comparison(s)
      [] f = "parse_equality" -> parse_equality(s)
      [] f = "parse_logical_and" -> parse_logical_and(s)
      [] f = "parse_logical_or" -> parse_logical_or(s)
      [] f = "parse_assignment" -> parse_assignment(s)
      [] f = "parse_stmt_let" -> parse_stmt_let(s)
      [] f = "parse_stmt_print" -> parse_stmt_print(s)
      [] f = "parse_stmt_if" -> parse_stmt_if(s)
      [] f = "parse_stmt_block" -> parse_stmt_block(s)
      [] f = "parse_stmt_while" -> parse_stmt_while(s)
      [] f = "parse_stmt_for" -> parse_stmt_for(s)
      [] f = "parse_stmt_expr" -> parse_stmt_expr(s)

\* The while loop of parse_program: the stream afterwards, the statements
\* and the errors.
RECURSIVE ProgramLoop(_, _, _)
ProgramLoop(s, exprs, errors) ==
    IF ~is_at_end(s)
    THEN Let(Call("parse_stmt", Mark(s, "parse_program")), LAMBDA r :
             IF ~r.res.ok
             THEN ProgramLoop(synchronize(Failed(r.s, r.res.err)), exprs,
                              Append(errors, r.res.err))
             ELSE IF prev(r.s) # None /\ prev(r.s)[1].token_type = "RightBrace"
             THEN ProgramLoop(r.s, Append(exprs, r.res.value), errors)
             ELSE IF peek(r.s) # None
             THEN IF is_at_end(r.s) /\ ~Contains(Separators, peek(r.s)[1].token_type)
                  THEN [s |-> r.s, exprs |-> Append(exprs, r.res.value),
                        errors |-> errors]
                  ELSE LET c == consume(r.s, Separators)
                       IN  IF c.res.ok
                           THEN ProgramLoop(c.s, Append(exprs, r.res.value), errors)
                           ELSE ProgramLoop(synchronize(Failed(c.s, c.res.err)),
                                            Append(exprs, r.res.value),
                                            Append(errors, c.res.err))
             ELSE ProgramLoop(r.s, Append(exprs, r.res.value), errors))
    ELSE [s |-> s, exprs |-> exprs, errors |-> errors]

\* An ErrorSet is the sequence of its errors.
parse_program(s) ==
    Let(ProgramLoop(s, <<>>, <<>>), LAMBDA r :
        IF r.errors = <<>>
        THEN Done(r.s, ExprProgram(TokenLoc(peek(s)[1]), r.exprs))
        ELSE Fail(r.s, r.errors))

parse(tokens) ==
    LET stream == TokenStreamNew(tokens)
    IN  IF is_at_end(stream)
        THEN Fail(stream, <<ParserError("unexpected end of file", 1, 1)>>)
        ELSE parse_program(stream)




(***************************************************************************)
(* Interpreter (interpreter/interpreter.rs).  The state st threaded        *)
(* through a visit is the Interpreter's EnvironmentStack, the output       *)
(* written so far, the log of store_result calls, and the number of loop   *)
(* iterations the visit may still run.  Each visit returns the state       *)
(* afterwards and the Result.                                              *)
(***************************************************************************)
\* What a visit returns when it would run more than MaxIter iterations: the
\* call has not returned.
Diverged == [msg |-> "", line |-> 0, column |-> 0, interrupt |-> "Diverged"]

store_result(st, loc, result) ==
    LET r == IF ~is_defined(st.environments, "_")
             THEN define_global(st.environments, loc, "_", result)
             ELSE assign(st.environments, loc, "_", result)
        logged == [loc |-> loc, pre |-> st.environments, result |-> result,
                   post |-> r.stack]
    IN  [st |-> [st EXCEPT !.environments = r.stack,
                           !.stores = Append(@, logged)],
         res |-> IF r.res.ok THEN Ok(ObjNil) ELSE r.res]

visit_number(st, loc, n) == [st |-> st, res |-> Ok(ObjNumber(n))]
visit_string(st, loc, s) == [st |-> st, res |-> Ok(ObjString(s))]
visit_boolean(st, loc, b) == [st |-> st, res |-> Ok(ObjBoolean(b))]
visit_nil(st, loc) == [st |-> st, res |-> Ok(ObjNil)]

visit_break(st, loc) == [st |-> st, res |-> Err(break_loop)]
visit_continue(st, loc) == [st |-> st, res |-> Err(continue_loop)]

RECURSIVE Repeat(_, _)
Repeat(s, n) == IF n <= 0 THEN "" ELSE s \o Repeat(s, n - 1)

\* The second match of visit_binary_op: both operands evaluated.
\* The Add arm with a fourth case: a number and a string concatenate too.
AddValue_Symmetric(loc, left, right) ==
    IF left.t = "Number" /\ right.t = "Number" THEN Ok(ObjNumber(left.n + right.n))
    ELSE IF left.t = "String" /\ right.t = "String"
         THEN Ok(ObjString(left.s \o right.s))
    ELSE IF left.t = "String" /\ right.t = "Number"
         THEN Ok(ObjString(left.s \o ObjDisplay(right)))
    ELSE IF left.t = "Number" /\ right.t = "String"
         THEN Ok(ObjString(ObjDisplay(left) \o right.s))
    ELSE Err(RuntimeError(
            "operand mismatch; second operand must be a number if the first one is",
            loc.line, loc.column))

\* The BinaryOp::Add arm of visit_binary_op.
AddValue(loc, left, right) ==
    IF left.t = "Number" /\ right.t = "Number" THEN Ok(ObjNumber(left.n + right.n))
    ELSE IF left.t = "String" /\ right.t = "String"
         THEN Ok(ObjString(left.s \o right.s))
    ELSE IF left.t = "String" /\ right.t = "Number"
         THEN Ok(ObjString(left.s \o ObjDisplay(right)))
    ELSE Err(RuntimeError(
            "operand mismatch; second operand must be a number if the first one is",
            loc.line, loc.column))

BinaryValue(loc, op, left, right) ==
    LET bothNum == left.t = "Number" /\ right.t = "Number"
        mustBeNumbers == Err(RuntimeError("operands must be numbers", loc.line, loc.column))
    IN
    CASE op = "Add" -> AddValue(loc, left, right)
      [] op = "Sub" -> IF bothNum THEN Ok(ObjNumber(left.n - right.n)) ELSE mustBeNumbers
      [] op = "Mul" ->
            IF bothNum THEN Ok(ObjNumber(left.n * right.n))
            ELSE IF left.t = "String" /\ right.t = "Number"
                 THEN Ok(ObjString(Repeat(left.s, right.n)))
            ELSE mustBeNumbers
      [] op = "Div" ->
            IF bothNum
            THEN IF right.n = 0 THEN Ok(ObjNaN) ELSE Ok(ObjNumber(left.n \div right.n))
            ELSE mustBeNumbers
      [] op = "Eq" -> Ok(ObjBoolean(is_equal(left, right)))
      [] op = "Ne" -> Ok(ObjBoolean(is_not_equal(left, right)))
      [] op = "Lt" -> IF bothNum THEN Ok(ObjBoolean(left.n < right.n)) ELSE mustBeNumbers
      [] op = "Le" -> IF bothNum THEN Ok(ObjBoolean(left.n <= right.n)) ELSE mustBeNumbers
      [] op = "Gt" -> IF bothNum THEN Ok(ObjBoolean(left.n > right.n)) ELSE mustBeNumbers
      [] op = "Ge" -> IF bothNum THEN Ok(ObjBoolean(left.n >= right.n)) ELSE mustBeNumbers
      [] OTHER -> Err(RuntimeError("binary operation expected", loc.line, loc.column))

RECURSIVE Accept(_, _)
RECURSIVE visit_unary_op(_, _, _, _)
RECURSIVE visit_binary_op(_, _, _, _, _)
RECURSIVE visit_print(_, _, _)
RECURSIVE visit_if(_, _, _, _, _)
RECURSIVE visit_let_init(_, _, _, _)
RECURSIVE visit_assign(_, _, _, _)
RECURSIVE StmtLoop(_, _, _, _, _)
RECURSIVE visit_block(_, _, _)
RECURSIVE WhileLoop(_, _, _, _, _)

visit_grouping(st, loc, e) == Accept(e, st)

visit_unary_op(st, loc, op, e) ==
    LET r == Accept(e, st)
    IN  IF ~r.res.ok THEN r
        ELSE IF op = "Neg"
        THEN IF r.res.value.t = "Number"
             THEN [st |-> r.st, res |-> Ok(ObjNumber(0 - r.res.value.n))]
             ELSE [st |-> r.st,
                   res |-> Err(RuntimeError("operand must be a number",
                                            loc.line, loc.column))]
        ELSE [st |-> r.st, res |-> Ok(ObjBoolean(is_falsy(r.res.value)))]

\* visit_binary_op without the early returns: the right operand is always
\* evaluated, and the logical operators then pick their value.
visit_binary_op_Eager(st, loc, op, e1, e2) ==
    LET l == Accept(e1, st)
    IN  IF ~l.res.ok THEN l
        ELSE LET r == Accept(e2, l.st)
             IN  IF ~r.res.ok THEN r
                 ELSE IF op = "LogicalAnd"
                 THEN [st |-> r.st,
                       res |-> IF ~is_truthy(l.res.value) THEN l.res ELSE r.res]
                 ELSE IF op = "LogicalOr"
                 THEN [st |-> r.st,
                       res |-> IF is_truthy(l.res.value) THEN l.res ELSE r.res]
                 ELSE [st |-> r.st,
                       res |-> BinaryValue(loc, op, l.res.value, r.res.value)]

visit_binary_op(st, loc, op, e1, e2) ==
    LET l == Accept(e1, st)
    IN  IF ~l.res.ok THEN l
        ELSE IF op = "LogicalAnd"
        THEN IF ~is_truthy(l.res.value) THEN l ELSE Accept(e2, l.st)
        ELSE IF op = "LogicalOr"
        THEN IF is_truthy(l.res.value) THEN l ELSE Accept(e2, l.st)
        ELSE LET r == Accept(e2, l.st)
             IN  IF ~r.res.ok THEN r
                 ELSE [st |-> r.st,
                       res |-> BinaryValue(loc, op, l.res.value, r.res.value)]

visit_print(st, loc, expr) ==
    LET r == Accept(expr, st)
    IN  IF ~r.res.ok THEN r
        ELSE [st |-> [r.st EXCEPT !.output = Append(@, ObjDisplay(r.res.value))],
              res |-> Ok(ObjNil)]

visit_if(st, loc, condition, then, else_) ==
    LET c == Accept(condition, st)
    IN  IF ~c.res.ok THEN c
        ELSE IF is_truthy(c.res.value) THEN Accept(then, c.st)
        ELSE IF else_ # <<>> THEN Accept(else_[1], c.st)
        ELSE [st |-> c.st, res |-> Ok(ObjNil)]

visit_let(st, loc, name) ==
    LET d == define(st.environments, loc, name, ObjNil)
    IN  [st |-> [st EXCEPT !.environments = d.stack], res |-> d.res]

visit_let_init(st, loc, name, expr) ==
    LET r == Accept(expr, st)
    IN  IF ~r.res.ok THEN r
        ELSE LET d == define(r.st.environments, loc, name, r.res.value)
             IN  [st |-> [r.st EXCEPT !.environments = d.stack], res |-> d.res]

visit_assign(st, loc, name, expr) ==
    LET r == Accept(expr, st)
    IN  IF ~r.res.ok THEN r
        ELSE LET a == assign(r.st.environments, loc, name, r.res.value)
             IN  [st |-> [r.st EXCEPT !.environments = a.stack], res |-> a.res]

visit_variable(st, loc, name) == [st |-> st, res |-> get(st.environments, loc, name)]

\* The loop of visit_program and of visit_block:
\*   for expr in exprs { last = expr.accept(self)?; self.store_result(loc, last.clone())?; }
StmtLoop(st, loc, exprs, i, last) ==
    IF i > Len(exprs) THEN [st |-> st, res |-> Ok(last)]
    ELSE LET r == Accept(exprs[i], st)
         IN  IF ~r.res.ok THEN r
             ELSE LET s == store_result(r.st, loc, r.res.value)
                  IN  IF ~s.res.ok THEN s
                      ELSE StmtLoop(s.st, loc, exprs, i + 1, r.res.value)

visit_program(st, loc, exprs) == StmtLoop(st, loc, exprs, 1, ObjNil)

visit_block(st, loc, exprs) ==
    LET entered == [st EXCEPT !.environments = enter_scope(@)]
        r == StmtLoop(entered, loc, exprs, 1, ObjNil)
    IN  IF ~r.res.ok THEN r
        ELSE LET l == leave_scope(r.st.environments, loc)
             IN  IF ~l.res.ok THEN [st |-> r.st, res |-> l.res]
                 ELSE [st |-> [r.st EXCEPT !.environments = l.stack], res |-> r.res]

\* visit_while with Continue handled as Break is: the loop ends.
WhileLoop_ContinueEnds(st, loc, condition, body, last) ==
    LET c == Accept(condition, st)
    IN  IF ~c.res.ok THEN c
        ELSE IF ~is_truthy(c.res.value) THEN [st |-> c.st, res |-> Ok(last)]
        ELSE IF c.st.fuel = 0 THEN [st |-> c.st, res |-> Err(Diverged)]
        ELSE LET b == Accept(body, [c.st EXCEPT !.fuel = @ - 1])
             IN  IF b.res.ok
                 THEN LET s == store_result(b.st, loc, b.res.value)
                      IN  IF ~s.res.ok THEN s
                          ELSE WhileLoop(s.st, loc, condition, body, b.res.value)
                 ELSE IF b.res.err.interrupt \in {"Break", "Continue"}
                      THEN [st |-> b.st, res |-> Ok(last)]
                 ELSE b

\* One turn of the while loop of visit_while, from the evaluation of cond.
WhileLoop(st, loc, condition, body, last) ==
    LET c == Accept(condition, st)
    IN  IF ~c.res.ok THEN c
        ELSE IF ~is_truthy(c.res.value) THEN [st |-> c.st, res |-> Ok(last)]
        ELSE IF c.st.fuel = 0 THEN [st |-> c.st, res |-> Err(Diverged)]
        ELSE LET b == Accept(body, [c.st EXCEPT !.fuel = @ - 1])
             IN  IF b.res.ok
                 THEN LET s == store_result(b.st, loc, b.res.value)
                      IN  IF ~s.res.ok THEN s
                          ELSE WhileLoop(s.st, loc, condition, body, b.res.value)
                 ELSE IF b.res.err.interrupt = "Break"
                      THEN [st |-> b.st, res |-> Ok(last)]
                 ELSE IF b.res.err.interrupt = "Continue"
                      THEN WhileLoop(b.st, loc, condition, body, last)
                 ELSE b

visit_while(st, loc, condition, body) == WhileLoop(st, loc, condition, body, ObjNil)

\* The dispatch of the data model's Break and Continue nodes.
AcceptInterrupt(expr, st) ==
    IF expr.kind = "Break" THEN visit_break(st, expr.loc)
    ELSE visit_continue(st, expr.loc)

\* Expr::accept
Accept(expr, st) ==
    CASE expr.kind = "Number" -> visit_number(st, expr.loc, expr.n)
      [] expr.kind = "String" -> visit_string(st, expr.loc, expr.s)
      [] expr.kind = "Boolean" -> visit_boolean(st, expr.loc, expr.b)
      [] expr.kind = "Nil" -> visit_nil(st, expr.loc)
      [] expr.kind = "Grouping" -> visit_grouping(st, expr.loc, expr.e)
      [] expr.kind = "UnaryOp" -> visit_unary_op(st, expr.loc, expr.op, expr.e)
      [] expr.kind = "BinaryOp" -> visit_binary_op(st, expr.loc, expr.op, expr.e1, expr.e2)
      [] expr.kind = "Print" -> visit_print(st, expr.loc, expr.e)
      [] expr.kind = "If" -> visit_if(st, expr.loc, expr.cond, expr.then, expr.else_)
      [] expr.kind = "Let" -> visit_let(st, expr.loc, expr.name)
      [] expr.kind = "LetInit" -> visit_let_init(st, expr.loc, expr.name, expr.e)
      [] expr.kind = "Assign" -> visit_assign(st, expr.loc, expr.name, expr.e)
      [] expr.kind = "Variable" -> visit_variable(st, expr.loc, expr.name)
      [] expr.kind = "Program" -> visit_program(st, expr.loc, expr.exprs)
      [] expr.kind = "Block" -> visit_block(st, expr.loc, expr.exprs)
      [] expr.kind = "While" -> visit_while(st, expr.loc, expr.cond, expr.body)
      [] OTHER -> AcceptInterrupt(expr, st)

\* Interpreter::eval on an Interpreter whose EnvironmentStack is stack.
eval(stack, out, expr) ==
    Accept(expr, [environments |-> stack, output |-> out, stores |-> <<>>,
                  fuel |-> MaxIter])


(***************************************************************************)
(* The inputs of the model.                                                *)
(***************************************************************************)
Names == {"a", "_"}
Values == {ObjNumber(1), ObjNumber(2)}

\* Hand-built trees: every node of one kind carries the same location, and a
\* Program, a Block and a While carry three different ones.
Loc0 == FileLocation(1, 0)
LocBlock == FileLocation(1, 1)
LocWhile == FileLocation(1, 2)

NumE(n) == ExprNumber(Loc0, n)
BoolE(b) == ExprBoolean(Loc0, b)
VarE(v) == ExprVariable(Loc0, v)
BlockE(exprs) == ExprBlock(LocBlock, exprs)
WhileE(c, b) == ExprWhile(LocWhile, c, b)
ProgramE(exprs) == ExprProgram(Loc0, exprs)
BreakE == ExprBreak(Loc0)
ContinueE == ExprContinue(Loc0)
SetA(b) == ExprAssign(Loc0, "a", BoolE(b))

\* An expression that always raises ("operand must be a number").
Raises == ExprUnaryOp(Loc0, "Neg", ExprString(Loc0, "x"))

\* Single statements: values, lookups, definitions, assignments, interrupts
\* and output.
Simple ==
    { NumE(1), VarE("a"), ExprLet(Loc0, "a"),
      ExprLetInit(Loc0, "a", BoolE(TRUE)), ExprLetInit(Loc0, "_", NumE(1)),
      SetA(FALSE), BreakE, ContinueE, ExprPrint(Loc0, NumE(1)),
      ExprBinaryOp(Loc0, NumE(1), "Div", NumE(0)), Raises }

Second == { NumE(1), SetA(FALSE), BreakE, ContinueE }

Blocks1 == { BlockE(<<s>>) : s \in Simple }
Blocks == Blocks1 \cup { BlockE(<<s, t>>) : s \in Simple, t \in Second }

\* Loop conditions; the last one is truthy the first time and raises the second
\* ("variable a already defined").
Conds == { BoolE(TRUE), BoolE(FALSE), VarE("a"), Raises,
           ExprLetInit(Loc0, "a", BoolE(TRUE)) }

Whiles == { WhileE(c, b) : c \in Conds, b \in Simple \cup Blocks }

\* A loop inside the body of a loop.
Inner == { WhileE(c, b) :
             c \in { BoolE(TRUE), VarE("a") },
             b \in { BreakE, ContinueE, BlockE(<<BreakE>>), SetA(FALSE) } }

Nested == { WhileE(VarE("a"), BlockE(<<w, t>>)) : w \in Inner, t \in Second }

\* A loop in a block that defines its own `_`.
Shadowed ==
    { BlockE(<<ExprLetInit(Loc0, "_", NumE(1)), WhileE(VarE("a"), b)>>) :
        b \in { SetA(FALSE), BlockE(<<SetA(FALSE)>>) } }

ShortCircuits ==
    { ExprBinaryOp(Loc0, l, op, r) :
        l \in { BoolE(TRUE), BoolE(FALSE) },
        op \in { "LogicalAnd", "LogicalOr" },
        r \in Simple \cup { BlockE(<<NumE(1)>>) } }

\* { let a = 1; } a: a name read after the block that defined it.
AfterBlock ==
    ProgramE(<<BlockE(<<ExprLetInit(Loc0, "a", NumE(1))>>), VarE("a")>>)

\* l + r for operands of every kind of Object; 1/0 is NaN.
Operands ==
    { NumE(1), NumE(2), ExprString(Loc0, "x"), ExprString(Loc0, ""), BoolE(TRUE),
      ExprNil(Loc0), ExprBinaryOp(Loc0, NumE(1), "Div", NumE(0)) }

Additions == { ExprBinaryOp(Loc0, l, "Add", r) : l \in Operands, r \in Operands }

Stmts == Simple \cup Blocks \cup Whiles \cup Nested \cup Shadowed \cup ShortCircuits

\* What eval is called with: a statement, or the Program the parser wraps
\* statements in.
Programs ==
    Stmts \cup { ProgramE(<<s>>) : s \in Simple \cup Blocks1 \cup Inner \cup Shadowed }
          \cup { ProgramE(<<s, t>>) :
                   s \in Blocks1 \cup Inner \cup { WhileE(BoolE(FALSE), BlockE(<<BreakE>>)) },
                   t \in Second }
          \cup { AfterBlock } \cup Additions

\* The programs evaluated before the last one on an Interpreter: they define
\* `a` and `_`, record a result, and leave a block by a RuntimeError and by an
\* interrupt.
Setups ==
    { ExprLet(Loc0, "a"), ExprLetInit(Loc0, "a", BoolE(TRUE)),
      ExprLetInit(Loc0, "_", NumE(1)), ProgramE(<<NumE(1)>>),
      BlockE(<<Raises>>), WhileE(BoolE(TRUE), BlockE(<<BreakE>>)) }

(***************************************************************************)
(* The state machine.                                                      *)
(***************************************************************************)
\* Interpreter::new
\* The LoxState that main creates.
LoxStateNew == [command_count |-> 0, had_error |-> FALSE]

InitInterp ==
    /\ environments = StackNew
    /\ output = <<>>
    /\ call = [op |-> "new"]
    /\ evals = 0
    /\ state = LoxStateNew
    /\ scanner = ScannerNew(<<>>)
    /\ pc = "idle"
    /\ lexed = None
    /\ parsed = None
    /\ token_stream = TokenStreamNew(<<>>)

NewInterpreter ==
    /\ call.op # "new"
    /\ environments' = StackNew
    /\ output' = <<>>
    /\ call' = [op |-> "new"]
    /\ evals' = 0
    /\ UNCHANGED lineVars

\* One call of Interpreter::eval that returns.  output is what this call
\* printed.  On one Interpreter every eval but the last is of a Setups program.
Eval(e) ==
    /\ evals < MaxEvals
    /\ call.op = "eval" => call.expr \in Setups
    /\ LET r == eval(environments, <<>>, e)
       IN  /\ ~(~r.res.ok /\ r.res.err.interrupt = "Diverged")
           /\ environments' = r.st.environments
           /\ output' = r.st.output
           /\ call' = [op |-> "eval", expr |-> e, pre |-> environments,
                       res |-> r.res, stores |-> r.st.stores]
    /\ evals' = evals + 1
    /\ UNCHANGED lineVars

NextEval ==
    \/ NewInterpreter
    \/ \E e \in Programs : Eval(e)

SpecEval == InitInterp /\ [][NextEval]_vars

\* The operations of EnvironmentStack, called in any order.
EnterScope ==
    /\ Len(environments) < MaxDepth
    /\ environments' = enter_scope(environments)
    /\ call' = [op |-> "enter_scope", pre |-> environments]
    /\ UNCHANGED <<output, evals, state, scanner, pc, lexed, parsed, token_stream>>

LeaveScope ==
    LET r == leave_scope(environments, Loc0)
    IN  /\ environments' = r.stack
        /\ call' = [op |-> "leave_scope", pre |-> environments, res |-> r.res]
        /\ UNCHANGED <<output, evals, state, scanner, pc, lexed, parsed, token_stream>>

Define(name, value) ==
    LET r == define(environments, Loc0, name, value)
    IN  /\ environments' = r.stack
        /\ call' = [op |-> "define", name |-> name, value |-> value,
                    pre |-> environments, res |-> r.res]
        /\ UNCHANGED <<output, evals, state, scanner, pc, lexed, parsed, token_stream>>

DefineGlobal(name, value) ==
    LET r == define_global(environments, Loc0, name, value)
    IN  /\ environments' = r.stack
        /\ call' = [op |-> "define_global", name |-> name, value |-> value,
                    pre |-> environments, res |-> r.res]
        /\ UNCHANGED <<output, evals, state, scanner, pc, lexed, parsed, token_stream>>

Get(name) ==
    /\ call' = [op |-> "get", name |-> name, pre |-> environments,
                res |-> get(environments, Loc0, name)]
    /\ UNCHANGED <<environments, output, evals, state, scanner, pc, lexed, parsed, token_stream>>

Assign(name, value) ==
    LET r == assign(environments, Loc0, name, value)
    IN  /\ environments' = r.stack
        /\ call' = [op |-> "assign", name |-> name, value |-> value,
                    pre |-> environments, res |-> r.res]
        /\ UNCHANGED <<output, evals, state, scanner, pc, lexed, parsed, token_stream>>

Delete(name) ==
    LET r == delete(environments, Loc0, name)
    IN  /\ environments' = r.stack
        /\ call' = [op |-> "delete", name |-> name, pre |-> environments,
                    res |-> r.res]
        /\ UNCHANGED <<output, evals, state, scanner, pc, lexed, parsed, token_stream>>

IsDefined(name) ==
    /\ call' = [op |-> "is_defined", name |-> name, pre |-> environments,
                res |-> is_defined(environments, name)]
    /\ UNCHANGED <<environments, output, evals, state, scanner, pc, lexed, parsed, token_stream>>

NextEnv ==
    \/ EnterScope
    \/ LeaveScope
    \/ \E name \in Names, value \in Values : Define(name, value)
    \/ \E name \in Names, value \in Values : DefineGlobal(name, value)
    \/ \E name \in Names : Get(name)
    \/ \E name \in Names, value \in Values : Assign(name, value)
    \/ \E name \in Names : Delete(name)
    \/ \E name \in Names : IsDefined(name)

SpecEnv == InitInterp /\ [][NextEnv]_vars

(***************************************************************************)
(* The lines the REPL reads: sequences of characters.                      *)
(***************************************************************************)
\* 1 + 2
SrcSpaced == <<"1", " ", "+", " ", "2">>
\* 1+2
SrcUnspaced == <<"1", "+", "2">>
\* {+;print(1)}: a block whose first statement is malformed
SrcDropped == <<"{", "+", ";", "p", "r", "i", "n", "t", "(", "1", ")", "}">>
\* while(false){break;}break;
SrcBreak ==
    <<"w", "h", "i", "l", "e", "(", "f", "a", "l", "s", "e", ")", "{", "b", "r", "e", "a", "k", ";", "}", "b", "r", "e", "a", "k", ";">>
\* while(false){continue;}continue;
SrcContinue ==
    <<"w", "h", "i", "l", "e", "(", "f", "a", "l", "s", "e", ")", "{", "c", "o", "n", "t", "i", "n", "u", "e", ";", "}", "c", "o", "n", "t", "i", "n", "u", "e", ";">>
\* false&&(1/0)
SrcAnd == <<"f", "a", "l", "s", "e", "&", "&", "(", "1", "/", "0", ")">>
\* a||b
SrcOr == <<"a", "|", "|", "b">>
\* a?b:c
SrcTernary == <<"a", "?", "b", ":", "c">>
\* a??b
SrcCoalesce == <<"a", "?", "?", "b">>

\* One word each: the lexemes of the keyword table, and other identifiers.
WordSources ==
    {<<"a", "n", "d">>,
     <<"c", "l", "a", "s", "s">>,
     <<"e", "l", "s", "e">>,
     <<"f", "a", "l", "s", "e">>,
     <<"f", "o", "r">>,
     <<"f", "u", "n">>,
     <<"i", "f">>,
     <<"n", "i", "l">>,
     <<"o", "r">>,
     <<"p", "r", "i", "n", "t">>,
     <<"r", "e", "t", "u", "r", "n">>,
     <<"s", "u", "p", "e", "r">>,
     <<"t", "h", "i", "s">>,
     <<"t", "r", "u", "e">>,
     <<"l", "e", "t">>,
     <<"w", "h", "i", "l", "e">>,
     <<"b", "r", "e", "a", "k">>,
     <<"c", "o", "n", "t", "i", "n", "u", "e">>,
     <<"v", "a", "r">>,
     <<"x", "1">>,
     <<"_">>}

OperatorSources == {SrcAnd, SrcOr, SrcTernary, SrcCoalesce}

OtherSources ==
    {<<"p", "r", "i", "n", "t", "(", "1", ")">>,
     <<"(", "1", ")">>,
     <<"!", "t", "r", "u", "e">>,
     <<"-", "1">>,
     <<"1", "<", "2">>,
     <<"1", "=", "=", "1">>,
     <<"a", "=", "1">>,
     <<"f", "o", "r", "(", ";", "f", "a", "l", "s", "e", ";", ")", "1">>,
     <<"\"", "a", "\"">>,
     <<"/", "/", "x">>,
     <<"/", "*", "x", "*", "/", "1">>,
     <<"1", "\n", "2">>,
     <<"1", ";", "2">>,
     <<"{", "1", "}">>,
     <<"i", "f", "(", "t", "r", "u", "e", ")", "1">>,
     <<"1", "*", "2">>,
     <<"1", "-", "2">>,
     <<"\"", "a">>,
     <<"1", ";", ";">>,
     <<")">>,
     <<>>,
     <<"{", "1", ";", "2", "}">>,
     <<"@">>}

\* Two malformed statements separated by a semicolon.
\* +;+
SrcTwoMalformed == <<"+", ";", "+">>
\* )1;)1
SrcTwoMalformedLong == <<")", "1", ";", ")", "1">>
\* +;print
SrcMalformedPrint == <<"+", ";", "p", "r", "i", "n", "t">>

MalformedPairs == {SrcTwoMalformed, SrcTwoMalformedLong, SrcMalformedPrint}

\* A malformed statement, a semicolon, a well-formed statement.
\* +;2
SrcRecover == <<"+", ";", "2">>
\* +1;2
SrcRecoverLong == <<"+", "1", ";", "2">>
\* +;print(1)
SrcRecoverPrint == <<"+", ";", "p", "r", "i", "n", "t", "(", "1", ")">>

RecoverSources == {SrcRecover, SrcRecoverLong, SrcRecoverPrint}

\* for(init;cond;incr)1 with each clause present or omitted (<<>>).
ForInit == <<"a", "=", "1">>
ForCond == <<"f", "a", "l", "s", "e">>
ForIncr == <<"a", "=", "2">>

ForSource(init, cond, incr) ==
    <<"f", "o", "r", "(">> \o init \o <<";">> \o cond \o <<";">> \o incr
        \o <<")", "1">>

ForSources ==
    { ForSource(init, cond, incr) :
        init \in {<<>>, ForInit}, cond \in {<<>>, ForCond}, incr \in {<<>>, ForIncr} }

\* for(;false;))1
SrcForTwoParens ==
    <<"f", "o", "r", "(", ";", "f", "a", "l", "s", "e", ";", ")", ")", "1">>

\* A string literal that the end of the line cuts off.
\* "a
SrcOpenString == <<"\"", "a">>
\* "a\n  (a backslash and the letter n)
SrcOpenEscape == <<"\"", "a", "\\", "n">>
\* "\"   (the closing quote is escaped)
SrcOpenEscapedQuote == <<"\"", "\\", "\"">>
\* "\    (the last character is a backslash)
SrcOpenBackslash == <<"\"", "\\">>
\* 1+"a\
SrcOpenBackslashLong == <<"1", "+", "\"", "a", "\\">>

UnterminatedSources ==
    {SrcOpenString, SrcOpenEscape, SrcOpenEscapedQuote, SrcOpenBackslash,
     SrcOpenBackslashLong}


\* The text between the quotes of a string literal: \t, \n, \r, \\, \q, \\t,
\* \\n, and a body without an escape.
StringBodies ==
    { <<"a">>, <<"\\", "t">>, <<"\\", "n">>, <<"\\", "r">>, <<"\\", "\\">>,
      <<"\\", "q">>, <<"\\", "\\", "t">>, <<"\\", "\\", "n">>,
      <<"a", "\\", "t", "b">> }

Quoted(body) == <<"\"">> \o body \o <<"\"">>

StringSources == { Quoted(body) : body \in StringBodies }


\* Sources of more than one line: 1 and 2 on two lines (\n and \r\n), an
\* empty line between them, a newline inside a string and inside a block
\* comment, and two newlines inside a block comment.
SrcTwoLines == <<"1", "\n", "2">>
SrcTwoLinesCR == <<"1", "\r", "\n", "2">>
SrcEmptyLine == <<"1", "\n", "\n", "2">>
SrcStringNewline == <<"\"", "\n", "\"">>
SrcCommentNewline == <<"/", "*", "\n", "*", "/">>
SrcCommentEmptyLine == <<"/", "*", "\n", "\n", "*", "/">>

LineSources ==
    {SrcTwoLines, SrcTwoLinesCR, SrcEmptyLine, SrcStringNewline,
     SrcCommentNewline, SrcCommentEmptyLine}


\* Block comments: /*a*/1, a nested one /*/*a*/*/1, one whose nested comment
\* alone is closed /*/*a*/1, two nested ones side by side /*/**//**/*/1, the
\* empty one /**/, and the unclosed /*/ and /*a.
SrcComment == <<"/", "*", "a", "*", "/", "1">>
SrcCommentNested == <<"/", "*", "/", "*", "a", "*", "/", "*", "/", "1">>
SrcCommentInnerClosed == <<"/", "*", "/", "*", "a", "*", "/", "1">>
SrcCommentSiblings ==
    <<"/", "*", "/", "*", "*", "/", "/", "*", "*", "/", "*", "/", "1">>
SrcCommentEmpty == <<"/", "*", "*", "/">>
SrcCommentSlash == <<"/", "*", "/">>
SrcCommentOpen == <<"/", "*", "a">>

CommentSources ==
    {SrcComment, SrcCommentNested, SrcCommentInnerClosed, SrcCommentSiblings,
     SrcCommentEmpty, SrcCommentSlash, SrcCommentOpen}


\* true?1:2 and false?1
SrcTernaryTrue == <<"t", "r", "u", "e", "?", "1", ":", "2">>
SrcTernaryNoElse == <<"f", "a", "l", "s", "e", "?", "1">>

TernarySources == {SrcTernary, SrcCoalesce, SrcTernaryTrue, SrcTernaryNoElse}


\* The binary operators the scanner has a token for: their characters, the
\* BinaryOp they stand for, and the grammar's level, 1 (equality) the loosest
\* and 4 (factor) the tightest.
Operators ==
    { [chars |-> <<"=", "=">>, op |-> "Eq", level |-> 1],
      [chars |-> <<"!", "=">>, op |-> "Ne", level |-> 1],
      [chars |-> <<"<">>, op |-> "Lt", level |-> 2],
      [chars |-> <<"<", "=">>, op |-> "Le", level |-> 2],
      [chars |-> <<">">>, op |-> "Gt", level |-> 2],
      [chars |-> <<">", "=">>, op |-> "Ge", level |-> 2],
      [chars |-> <<"+">>, op |-> "Add", level |-> 3],
      [chars |-> <<"-">>, op |-> "Sub", level |-> 3],
      [chars |-> <<"*">>, op |-> "Mul", level |-> 4],
      [chars |-> <<"/">>, op |-> "Div", level |-> 4] }

\* 1 o1 2 o2 3
Chain(o1, o2) == <<"1">> \o o1.chars \o <<"2">> \o o2.chars \o <<"3">>

ChainSources == { Chain(o1, o2) : o1 \in Operators, o2 \in Operators }

\* -1*2, 1*-2, -1-2 and !true==false
SrcNegFirst == <<"-", "1", "*", "2">>
SrcNegSecond == <<"1", "*", "-", "2">>
SrcNegSub == <<"-", "1", "-", "2">>
SrcNotEq == <<"!", "t", "r", "u", "e", "=", "=", "f", "a", "l", "s", "e">>

UnarySources == {SrcNegFirst, SrcNegSecond, SrcNegSub, SrcNotEq}


\* a=b=1, and an = after a number, a string, true, nil, a grouping, a unary
\* and a binary expression.
SrcAssignChain == <<"a", "=", "b", "=", "1">>
SrcAssignNumber == <<"1", "=", "2">>
SrcAssignString == <<"\"", "s", "\"", "=", "1">>
SrcAssignTrue == <<"t", "r", "u", "e", "=", "1">>
SrcAssignNil == <<"n", "i", "l", "=", "1">>
SrcAssignGrouping == <<"(", "a", ")", "=", "1">>
SrcAssignUnary == <<"-", "a", "=", "1">>
SrcAssignBinary == <<"a", "+", "b", "=", "1">>
SrcAssignInner == <<"a", "=", "1", "=", "2">>

InvalidTargets ==
    {SrcAssignNumber, SrcAssignString, SrcAssignTrue, SrcAssignNil,
     SrcAssignGrouping, SrcAssignUnary, SrcAssignBinary, SrcAssignInner}

AssignSources == {SrcAssignChain} \cup InvalidTargets


\* (1 and a carriage return before ?
SrcOpenParen == <<"(", "1">>
SrcCarriageReturn == <<"\r", "?">>

ReportSources == {SrcOpenParen, SrcCarriageReturn}


\* Lines that end inside a block or keep the statement loops and
\* synchronize busy: {  {+  {+;1}  {1;;}  ;;  {{+}  +)(  {1 2}
SrcBlockOpen == <<"{">>
SrcBlockOpenError == <<"{", "+">>
SrcBlockError == <<"{", "+", ";", "1", "}">>
SrcBlockSeparators == <<"{", "1", ";", ";", "}">>
SrcSeparators == <<";", ";">>
SrcBlockNested == <<"{", "{", "+", "}">>
SrcParens == <<"+", ")", "(">>
SrcBlockTwo == <<"{", "1", "(", "2", "}">>

LoopSources ==
    {SrcBlockOpen, SrcBlockOpenError, SrcBlockError, SrcBlockSeparators,
     SrcSeparators, SrcBlockNested, SrcParens, SrcBlockTwo}

Sources ==
    {SrcSpaced, SrcUnspaced, SrcDropped, SrcBreak, SrcContinue}
        \cup WordSources \cup OperatorSources \cup OtherSources
        \cup MalformedPairs \cup UnterminatedSources \cup RecoverSources
        \cup ForSources \cup {SrcForTwoParens}
        \cup StringSources
        \cup LineSources
        \cup CommentSources
        \cup TernarySources
        \cup ChainSources \cup UnarySources
        \cup AssignSources
        \cup ReportSources
        \cup LoopSources

(***************************************************************************)
(* exec_line (main.rs), one line of the REPL: parse_line scans and parses  *)
(* the line, then a new Interpreter evaluates the Expr.  The scan advances *)
(* one scan_token at a time.  What parse_line writes to stderr is left     *)
(* out.                                                                    *)
(***************************************************************************)
InitLine ==
    /\ environments = StackNew
    /\ output = <<>>
    /\ call = [op |-> "new"]
    /\ evals = 0
    /\ state = LoxStateNew
    /\ scanner = ScannerNew(<<>>)
    /\ pc = "idle"
    /\ lexed = None
    /\ parsed = None
    /\ token_stream = TokenStreamNew(<<>>)

\* exec_line is called with a line: parse_line counts it and creates the
\* Scanner.
ReadLine(source) ==
    /\ pc \in {"idle", "done"}
    /\ state.command_count < MaxLines
    /\ state' = [state EXCEPT !.command_count = @ + 1]
    /\ scanner' = ScannerNew(source)
    /\ pc' = "scan"
    /\ lexed' = None
    /\ parsed' = None
    /\ environments' = StackNew
    /\ output' = <<>>
    /\ call' = [op |-> "new"]
    /\ UNCHANGED <<evals, token_stream>>

\* input.split('\n').collect().len()
RECURSIVE SplitLines(_)
SplitLines(chars) ==
    IF chars = <<>> THEN 1
    ELSE (IF Head(chars) = "\n" THEN 1 ELSE 0) + SplitLines(Tail(chars))

\* The report of an error: lines[err.line - 1] is read, which panics when
\* err.line is 0 (the subtraction overflows or the index is out of range) or
\* more than the number of lines.  TRUE when the report returns.
report(err, source) == err.line >= 1 /\ err.line <= SplitLines(source)

\* One turn of the loop of Scanner::scan_tokens.  A LexerError is reported
\* and ends parse_line and exec_line: had_error is set and not reset.
ScanToken ==
    /\ pc = "scan"
    /\ ~scan_is_at_end(scanner)
    /\ LET r == scan_token([scanner EXCEPT !.start = scanner.current])
       IN  /\ scanner' = r.sc
           /\ IF r.sc.panic
              THEN /\ pc' = "panic"
                   /\ UNCHANGED <<lexed, state>>
              ELSE IF r.res.ok
              THEN UNCHANGED <<pc, lexed, state>>
              ELSE /\ lexed' = Some(Err(r.res.err))
                   /\ IF report(r.res.err, scanner.source)
                      THEN /\ state' = [state EXCEPT !.had_error = TRUE]
                           /\ pc' = "idle"
                      ELSE /\ pc' = "panic"
                           /\ UNCHANGED state
    /\ UNCHANGED <<environments, output, call, evals, parsed, token_stream>>

\* The end of Scanner::scan_tokens.
ScanEnd ==
    /\ pc = "scan"
    /\ scan_is_at_end(scanner)
    /\ scanner' = PushEOF(scanner)
    /\ lexed' = Some(Ok(scanner'.tokens))
    /\ pc' = "parse"
    /\ UNCHANGED <<environments, output, call, evals, state, parsed, token_stream>>

\* parse(&tokens) in parse_line.  An ErrorSet is reported, error by error, and
\* ends parse_line and exec_line: had_error is set and not reset.
Parse ==
    /\ pc = "parse"
    /\ \E r \in {parse(lexed[1].value)} :
           /\ parsed' = Some([res |-> r.res, failures |-> r.s.failures,
                              index |-> r.s.index, marks |-> r.s.marks])
           /\ IF r.res.ok
              THEN /\ pc' = "run"
                   /\ UNCHANGED state
              ELSE IF \A i \in 1..Len(r.res.err) : report(r.res.err[i], scanner.source)
              THEN /\ pc' = "idle"
                   /\ state' = [state EXCEPT !.had_error = TRUE]
              ELSE /\ pc' = "panic"
                   /\ UNCHANGED state
    /\ UNCHANGED <<environments, output, call, evals, scanner, lexed, token_stream>>

\* The Ok arm of exec_line: Interpreter::new().eval(&expr) unless had_error,
\* the value printed, had_error reset.
Exec ==
    /\ pc = "run"
    /\ IF ~state.had_error
       THEN LET r == eval(StackNew, <<>>, parsed[1].res.value)
            IN  /\ ~(~r.res.ok /\ r.res.err.interrupt = "Diverged")
                /\ environments' = r.st.environments
                /\ output' = IF r.res.ok
                             THEN Append(r.st.output, ObjDisplay(r.res.value))
                             ELSE r.st.output
                /\ call' = [op |-> "eval", expr |-> parsed[1].res.value,
                            pre |-> StackNew, res |-> r.res,
                            stores |-> r.st.stores]
       ELSE /\ call' = [op |-> "skipped"]
            /\ UNCHANGED <<environments, output>>
    /\ state' = [state EXCEPT !.had_error = FALSE]
    /\ pc' = "done"
    /\ UNCHANGED <<evals, scanner, lexed, parsed, token_stream>>

NextLine ==
    \/ \E source \in Sources : ReadLine(source)
    \/ ScanToken
    \/ ScanEnd
    \/ Parse
    \/ Exec

SpecLine == InitLine /\ [][NextLine]_vars

(***************************************************************************)
(* The operations of TokenStream (parser/token_stream.rs), called in any   *)
(* order on the token list of a scan: the tokens of add_token, one per     *)
(* column, then EOF at the last column.                                    *)
(***************************************************************************)
MaxTokens == 2      \* tokens before EOF in a token list

StreamTypes == {"LeftParen", "RightParen", "Semicolon"}

TokenList(types) ==
    [i \in 1..(Len(types) + 1) |->
        IF i <= Len(types) THEN Token(types[i], "", LitNil, 1, i)
        ELSE Token("EOF", "", LitNil, 1, Len(types))]

TokenLists ==
    { TokenList(types) :
        types \in UNION { [1..n -> StreamTypes] : n \in 0..MaxTokens } }

\* The lists of token types that consume and match_token are called with.
Expected == {<<"RightParen">>, <<"LeftParen">>, <<"Comma", "Semicolon">>}

InitStream ==
    /\ environments = StackNew
    /\ output = <<>>
    /\ call = [op |-> "new"]
    /\ evals = 0
    /\ state = LoxStateNew
    /\ scanner = ScannerNew(<<>>)
    /\ pc = "idle"
    /\ lexed = None
    /\ parsed = None
    /\ token_stream \in { TokenStreamNew(tokens) : tokens \in TokenLists }

StreamNext ==
    LET r == next(token_stream)
    IN  /\ token_stream' = r.s
        /\ call' = [op |-> "next", pre |-> token_stream, token |-> r.token]
        /\ UNCHANGED <<environments, output, evals, state, scanner, pc, lexed, parsed>>

StreamMatch(token_types) ==
    LET r == match_token(token_stream, token_types)
    IN  /\ token_stream' = r.s
        /\ call' = [op |-> "match_token", token_types |-> token_types,
                    pre |-> token_stream, matched |-> r.matched]
        /\ UNCHANGED <<environments, output, evals, state, scanner, pc, lexed, parsed>>

StreamConsume(token_types) ==
    LET r == consume(token_stream, token_types)
    IN  /\ token_stream' = r.s
        /\ call' = [op |-> "consume", token_types |-> token_types,
                    pre |-> token_stream, res |-> r.res]
        /\ UNCHANGED <<environments, output, evals, state, scanner, pc, lexed, parsed>>

NextStream ==
    \/ StreamNext
    \/ \E token_types \in Expected : StreamMatch(token_types)
    \/ \E token_types \in Expected : StreamConsume(token_types)

SpecStream == InitStream /\ [][NextStream]_vars


(***************************************************************************)
(* Claims about the Interpreter (SpecEval) and the EnvironmentStack        *)
(* (SpecEnv).                                                              *)
(***************************************************************************)
\* What a visit returned and the state it left, without the iteration budget.
Outcome(r) ==
    [res |-> r.res, environments |-> r.st.environments, output |-> r.st.output,
     stores |-> r.st.stores]

\* The outcome of the last eval call, and the state it started in.
Final ==
    [res |-> call.res, environments |-> environments, output |-> output,
     stores |-> call.stores]

Started ==
    [environments |-> call.pre, output |-> <<>>, stores |-> <<>>, fuel |-> MaxIter]

\* C1: evaluating a Block leaves the EnvironmentStack at the depth it had before
\* the block was entered, on every exit path (normal completion, a RuntimeError,
\* a Break/Continue interrupt), also when the block is the body of a while loop
\* that intercepts the interrupt.  Stated here for the two exit paths that the
\* Exprs of expr.rs reach, normal completion and a RuntimeError without an
\* interrupt tag; C1_AlsoInterrupts is the statement for every exit path.
C1_BlockRestoresDepth ==
    (/\ call.op = "eval"
     /\ call.expr.kind = "Block"
     /\ (call.res.ok \/ call.res.err.interrupt = "None"))
        => Len(environments) = Len(call.pre)

C1_AlsoInterrupts ==
    (/\ call.op = "eval"
     /\ \/ call.expr.kind = "Block"
        \/ call.expr.kind = "While" /\ call.expr.body.kind = "Block")
        => Len(environments) = Len(call.pre)

(***************************************************************************)
(* Claims about the Scanner, the TokenStream and the Parser (SpecLine)     *)
(***************************************************************************)
\* The tokens without those of kind Whitespace, NewLine and Comment.
SkipSpace(tokens) ==
    SelectSeq(tokens,
              LAMBDA t : t.token_type \notin {"Whitespace", "NewLine", "Comment"})

\* C2: Whitespace, NewLine and Comment tokens are skipped by the TokenStream:
\* the parse of the tokens of a line succeeds exactly when the parse of the
\* same tokens without those of these three kinds succeeds.
C2_SpaceTokensSkipped ==
    parsed # None =>
        (parsed[1].res.ok <=> parse(SkipSpace(lexed[1].value)).res.ok)

\* C3: when a statement or its separator failed to parse anywhere in the
\* pass, at top level or inside a block, parse returns Err; it returns
\* Ok(Program) only when no statement failed.
C3_NoStatementDropped ==
    parsed # None => (parsed[1].failures # <<>> => ~parsed[1].res.ok)

\* The keyword lexemes of the language.
Keywords ==
    {"and", "class", "else", "false", "for", "fun", "if", "nil", "or", "print",
     "return", "super", "this", "true", "let", "while", "break", "continue"}

\* C4: of the tokens that Scanner::identifier pushes, the one of a keyword
\* lexeme has that keyword's kind (`let` is Let, `break` is Break, `continue`
\* is Continue, and none is Identifier), and the one of any other lexeme is
\* Identifier with Literal::Identifier holding the text.
C4_KeywordTable ==
    \A i \in 1..Len(scanner.tokens) :
        LET t == scanner.tokens[i]
        IN  t.literal.t \in {"Identifier", "Boolean"} =>
                /\ t.lexeme = "let" => t.token_type = "Let"
                /\ t.lexeme = "break" => t.token_type = "Break"
                /\ t.lexeme = "continue" => t.token_type = "Continue"
                /\ t.lexeme \in Keywords => t.token_type # "Identifier"
                /\ t.lexeme \notin Keywords =>
                       /\ t.token_type = "Identifier"
                       /\ t.literal = LitIdentifier(t.lexeme)

\* C5: the line `while(false){break;}break;`, scanned, parsed and evaluated,
\* ends with the Err that carries the Break tag and the message "break outside
\* of a loop"; the same with continue.
C5_BreakOutsideLoop ==
    (/\ pc = "done"
     /\ call.op = "eval"
     /\ scanner.source \in {SrcBreak, SrcContinue}) =>
        /\ ~call.res.ok
        /\ call.res.err.interrupt =
               (IF scanner.source = SrcBreak THEN "Break" ELSE "Continue")
        /\ call.res.err.msg =
               (IF scanner.source = SrcBreak THEN "break outside of a loop"
                ELSE "continue outside of a loop")

\* C6: a line built from `&&`, `||`, `?`, `??`, `:` and other tokens of the
\* grammar is not rejected by the scan with "unknown token type".
C6_OperatorsScan ==
    (lexed # None /\ scanner.source \in OperatorSources) =>
        (lexed[1].ok \/ lexed[1].err.msg # "unknown token type")

(***************************************************************************)
(* Claims about the Interpreter (SpecEval), continued                      *)
(***************************************************************************)
\* C7: every result recorded by program or while evaluation is afterwards bound
\* to `_` in the root scope, and no `_` binding of a non-root scope is created
\* or rewritten by the recording.
StoredInRoot(s) ==
    /\ "_" \in DOMAIN s.post[1]
    /\ s.post[1]["_"] = s.result
    /\ Len(s.post) = Len(s.pre)
    /\ \A k \in 2..Len(s.pre) : s.post[k] = s.pre[k]

\* Stated for the evals that start and end with the root scope alone: every
\* block they entered was left again.
C7_StoreResultInRoot ==
    (call.op = "eval" /\ Len(call.pre) = 1 /\ Len(environments) = 1) =>
        \A i \in 1..Len(call.stores) :
            call.stores[i].loc \in {Loc0, LocWhile} => StoredInRoot(call.stores[i])

\* C8: visit_while intercepts only interrupts raised by its body.  With c the
\* evaluation of the condition and b that of the body in the first iteration:
\* an error of c is returned as it is; a Break of b ends the loop with Ok and
\* nothing further is evaluated; a Continue of b leads to the condition being
\* evaluated again (c2), whose error or falsy value ends the loop; any other
\* error of b is returned unchanged and nothing further is evaluated.
C8_WhileInterceptsOnlyInterrupts ==
    (call.op = "eval" /\ call.expr.kind = "While") =>
        LET c == Accept(call.expr.cond, Started)
            b == Accept(call.expr.body, c.st)
            c2 == Accept(call.expr.cond, b.st)
        IN  CASE ~c.res.ok -> Final = Outcome(c)
              [] ~is_truthy(c.res.value) -> Final = Outcome([c EXCEPT !.res = Ok(ObjNil)])
              [] b.res.ok -> TRUE
              [] b.res.err.interrupt = "Break" ->
                    Final = Outcome([b EXCEPT !.res = Ok(ObjNil)])
              [] b.res.err.interrupt = "Continue" ->
                    CASE ~c2.res.ok -> Final = Outcome(c2)
                      [] ~is_truthy(c2.res.value) ->
                            Final = Outcome([c2 EXCEPT !.res = Ok(ObjNil)])
                      [] OTHER -> TRUE
              [] OTHER -> Final = Outcome(b)

\* A loop whose body raised Break has returned Ok.
C8_Witness ==
    /\ call.op = "eval"
    /\ call.expr.kind = "While"
    /\ LET c == Accept(call.expr.cond, Started)
           b == Accept(call.expr.body, c.st)
       IN  /\ c.res.ok /\ is_truthy(c.res.value)
           /\ ~b.res.ok /\ b.res.err.interrupt = "Break"
    /\ call.res = Ok(ObjNil)

\* C9: in `a && b` with a falsy, and in `a || b` with a truthy, b is not
\* evaluated: the expression returns Ok with a's value and the state is the one
\* a's evaluation left (no definition, assignment or output of b, and the
\* EnvironmentStack as it was), also when b would raise.
RightSkipped(expr, l) ==
    \/ expr.op = "LogicalAnd" /\ ~is_truthy(l.res.value)
    \/ expr.op = "LogicalOr" /\ is_truthy(l.res.value)

C9_ShortCircuit ==
    (/\ call.op = "eval"
     /\ call.expr.kind = "BinaryOp"
     /\ call.expr.op \in {"LogicalAnd", "LogicalOr"}) =>
        LET l == Accept(call.expr.e1, Started)
        IN  (l.res.ok /\ RightSkipped(call.expr, l)) =>
                /\ call.res.ok
                /\ Final = Outcome(l)

\* `false && b` has returned Ok where b alone raises.
C9_Witness ==
    /\ call.op = "eval"
    /\ call.expr.kind = "BinaryOp"
    /\ call.expr.op = "LogicalAnd"
    /\ LET l == Accept(call.expr.e1, Started)
       IN  /\ l.res.ok /\ RightSkipped(call.expr, l)
           /\ ~Accept(call.expr.e2, l.st).res.ok
    /\ call.res.ok

\* C10: define(name, v) changes the innermost scope only.  If that scope binds
\* name the call returns Err("variable <name> already defined") and no scope
\* changes; otherwise it returns Ok and binds name to v there, whatever the
\* outer scopes bind.
C10_DefineInnermostOnly ==
    call.op = "define" =>
        LET top == Len(call.pre)
        IN  /\ Len(environments) = top
            /\ \A i \in 1..(top - 1) : environments[i] = call.pre[i]
            /\ IF call.name \in DOMAIN call.pre[top]
               THEN /\ ~call.res.ok
                    /\ call.res.err.msg = "variable " \o call.name \o " already defined"
                    /\ environments[top] = call.pre[top]
               ELSE /\ call.res.ok
                    /\ DOMAIN environments[top] = DOMAIN call.pre[top] \cup {call.name}
                    /\ environments[top][call.name] = call.value
                    /\ \A n \in DOMAIN call.pre[top] :
                          environments[top][n] = call.pre[top][n]

\* A define that succeeded while an outer scope binds the name to another value.
C10_Witness ==
    /\ call.op = "define"
    /\ call.res.ok
    /\ Len(call.pre) >= 2
    /\ call.name \in DOMAIN call.pre[1]
    /\ call.pre[1][call.name] # call.value
    /\ environments[1][call.name] = call.pre[1][call.name]

(***************************************************************************)
(* get, assign and the scopes of the EnvironmentStack.                     *)
(***************************************************************************)
\* The innermost scope of stack that defines name; 0 when no scope does.
Innermost(stack, name) ==
    IF \E i \in 1..Len(stack) : name \in DOMAIN stack[i]
    THEN CHOOSE i \in 1..Len(stack) :
            /\ name \in DOMAIN stack[i]
            /\ \A j \in (i + 1)..Len(stack) : name \notin DOMAIN stack[j]
    ELSE 0

\* C11: get(name) returns the value bound in the innermost scope that defines
\* name, and assign(name, v) rebinds name to v in that scope and changes no
\* other binding and no other scope; each returns Err exactly when no scope
\* defines name, and a failed assign changes no scope.
C11_GetAssignInnermost ==
    /\ call.op = "get" =>
          LET k == Innermost(call.pre, call.name)
          IN  /\ call.res.ok <=> k # 0
              /\ k # 0 => call.res.value = call.pre[k][call.name]
              /\ environments = call.pre
    /\ call.op = "assign" =>
          LET k == Innermost(call.pre, call.name)
          IN  /\ call.res.ok <=> k # 0
              /\ k = 0 => environments = call.pre
              /\ k # 0 =>
                    /\ Len(environments) = Len(call.pre)
                    /\ \A i \in 1..Len(call.pre) :
                          i # k => environments[i] = call.pre[i]
                    /\ DOMAIN environments[k] = DOMAIN call.pre[k]
                    /\ environments[k][call.name] = call.value
                    /\ \A n \in DOMAIN call.pre[k] :
                          n # call.name => environments[k][n] = call.pre[k][n]

\* An assign that succeeded on a name that two scopes bind, to a value that
\* neither held: the outer binding is as before.
C11_Witness ==
    /\ call.op = "assign"
    /\ call.res.ok
    /\ \E i, j \in 1..Len(call.pre) :
          /\ i < j
          /\ call.name \in DOMAIN call.pre[i]
          /\ call.name \in DOMAIN call.pre[j]
          /\ call.pre[i][call.name] # call.value
          /\ call.pre[j][call.name] # call.value
          /\ j = Innermost(call.pre, call.name)
          /\ environments[i][call.name] = call.pre[i][call.name]

\* C12: the stack always holds the root scope.  leave_scope with only the
\* root scope returns Err("cannot leave global scope") and changes nothing;
\* otherwise it returns Ok and removes the innermost scope only.  enter_scope
\* adds one empty scope and keeps the others.
C12_RootScopeStays ==
    /\ Len(environments) >= 1
    /\ call.op = "leave_scope" =>
          IF Len(call.pre) = 1
          THEN /\ ~call.res.ok
               /\ call.res.err.msg = "cannot leave global scope"
               /\ environments = call.pre
          ELSE /\ call.res.ok
               /\ Len(environments) = Len(call.pre) - 1
               /\ \A i \in 1..Len(environments) : environments[i] = call.pre[i]
    /\ call.op = "enter_scope" =>
          /\ Len(environments) = Len(call.pre) + 1
          /\ \A i \in 1..Len(call.pre) : environments[i] = call.pre[i]

\* leave_scope refused on a root scope that holds a binding.
C12_Witness ==
    /\ call.op = "leave_scope"
    /\ ~call.res.ok
    /\ Len(environments) = 1
    /\ DOMAIN environments[1] # {}

\* leave_scope removed the innermost of three scopes.
C12_WitnessPop ==
    /\ call.op = "leave_scope"
    /\ call.res.ok
    /\ Len(call.pre) = MaxDepth

\* C13: a variable lookup of a name that no active scope defines fails with
\* the message "variable <name> not defined"; so does `{ let a = 1; } a`,
\* where the block's scope is gone when a is read.
C13_NotDefinedMessage ==
    /\ (/\ call.op = "eval"
        /\ call.expr.kind = "Variable"
        /\ Innermost(call.pre, call.expr.name) = 0)
          => /\ ~call.res.ok
             /\ call.res.err.msg = "variable " \o call.expr.name \o " not defined"
    /\ (/\ call.op = "eval"
        /\ call.expr = AfterBlock
        /\ Innermost(call.pre, "a") = 0)
          => /\ ~call.res.ok
             /\ call.res.err.msg = "variable a not defined"

\* What the lookups of C13 return: Err, with the message of
\* EnvironmentStack::get.
C13_UndefinedVariable ==
    (/\ call.op = "eval"
     /\ call.expr.kind = "Variable" \/ call.expr = AfterBlock
     /\ Innermost(call.pre, "a") = 0
     /\ call.expr.kind = "Variable" => call.expr.name = "a")
        => /\ ~call.res.ok
           /\ call.res.err.msg = "undefined variable: a"
           /\ call.res.err.interrupt = "None"
           /\ Len(environments) = Len(call.pre)

C13_Witness ==
    /\ call.op = "eval"
    /\ call.expr = AfterBlock
    /\ Innermost(call.pre, "a") = 0

(***************************************************************************)
(* Error recovery of parse_program.                                        *)
(***************************************************************************)
\* The column of the first semicolon of a one-line source: the column of its
\* token.
SemicolonColumn(source) == CHOOSE i \in 1..Len(source) :
                              source[i] = ";" /\ \A j \in 1..(i - 1) : source[j] # ";"

\* C14: the parse of two malformed statements separated by a semicolon
\* returns an ErrorSet with an error of the first statement and, after it, an
\* error of the second statement (an error located after the semicolon).
C14_BothErrorsReported ==
    (parsed # None /\ scanner.source \in MalformedPairs) =>
        /\ ~parsed[1].res.ok
        /\ \E i, j \in 1..Len(parsed[1].res.err) :
              /\ i < j
              /\ parsed[1].res.err[i].column < SemicolonColumn(scanner.source)
              /\ parsed[1].res.err[j].column > SemicolonColumn(scanner.source)

\* What holds of these parses: an ErrorSet whose first error is that of the
\* first statement.
C14_FirstErrorReported ==
    (parsed # None /\ scanner.source \in MalformedPairs) =>
        /\ ~parsed[1].res.ok
        /\ Len(parsed[1].res.err) >= 1
        /\ parsed[1].res.err[1].column < SemicolonColumn(scanner.source)

\* A parse that reports both errors.
C14_Witness ==
    /\ parsed # None
    /\ scanner.source = SrcMalformedPrint
    /\ Len(parsed[1].res.err) = 2
    /\ parsed[1].res.err[2].column > SemicolonColumn(scanner.source)

\* The statements and the errors of parse_program for the scanned line.
Recovered == ProgramLoop(TokenStreamNew(lexed[1].value), <<>>, <<>>)

\* C19: after a malformed statement synchronize stops in front of the first
\* separator or statement keyword and the parse resumes with the next
\* statement: in the parse of a malformed statement, a semicolon and a
\* well-formed statement, the well-formed statement is in the statement
\* list and the ErrorSet holds the error of the malformed statement only.
C19_ResumesAtNextStatement ==
    (parsed # None /\ scanner.source \in RecoverSources) =>
        /\ ~parsed[1].res.ok
        /\ parsed[1].res.err = Recovered.errors
        /\ Len(Recovered.errors) = 1
        /\ Recovered.errors[1].column < SemicolonColumn(scanner.source)
        /\ Len(Recovered.exprs) = 1
        /\ Recovered.exprs[1].loc.column > SemicolonColumn(scanner.source)

\* What holds of these parses: the first error is that of the malformed
\* statement, and a statement is in the list only if it is the well-formed
\* one.
C19_FirstErrorOnly ==
    (parsed # None /\ scanner.source \in RecoverSources) =>
        /\ ~parsed[1].res.ok
        /\ parsed[1].res.err = Recovered.errors
        /\ Recovered.errors[1].column < SemicolonColumn(scanner.source)
        /\ \A i \in 1..Len(Recovered.exprs) :
              Recovered.exprs[i].loc.column > SemicolonColumn(scanner.source)

\* A parse that resumes at the statement keyword after the semicolon.
C19_Witness ==
    /\ parsed # None
    /\ scanner.source = SrcRecoverPrint
    /\ Len(Recovered.errors) = 1
    /\ Len(Recovered.exprs) = 1
    /\ Recovered.exprs[1].kind = "Print"

(***************************************************************************)
(* The scan of a line.                                                     *)
(***************************************************************************)
\* C15: the scan of a source whose string literal is not closed before the
\* end of input, also one whose last character is a backslash, ends with
\* Err(LexerError "unterminated string") and no token list.
C15_UnterminatedString ==
    (scanner.source \in UnterminatedSources /\ pc # "scan") =>
        /\ lexed # None
        /\ ~lexed[1].ok
        /\ lexed[1].err.msg = "unterminated string"

\* What holds of these scans: none returns a token list, and the scan ends
\* with the LexerError unless the last character is a backslash.
C15_NoTokenList ==
    (scanner.source \in UnterminatedSources /\ pc # "scan") =>
        IF scanner.source[Len(scanner.source)] = "\\"
        THEN pc = "panic" /\ lexed = None
        ELSE /\ lexed # None
             /\ ~lexed[1].ok
             /\ lexed[1].err.msg = "unterminated string"

C15_Witness ==
    /\ scanner.source = SrcOpenEscapedQuote
    /\ lexed # None
    /\ ~lexed[1].ok

(***************************************************************************)
(* Binary operators.                                                       *)
(***************************************************************************)
\* C16: l + r is the sum of two numbers, the concatenation of two strings,
\* and a string followed by the display form of a number; for every other
\* pair of operands, a number and a string included, it is a RuntimeError.
C16_AddCoercion ==
    (call.op = "eval" /\ call.expr \in Additions) =>
        LET l == Accept(call.expr.e1, Started).res.value
            r == Accept(call.expr.e2, Started).res.value
        IN  CASE l.t = "Number" /\ r.t = "Number" ->
                   call.res = Ok(ObjNumber(l.n + r.n))
              [] l.t = "String" /\ r.t = "String" ->
                   call.res = Ok(ObjString(l.s \o r.s))
              [] l.t = "String" /\ r.t = "Number" ->
                   call.res = Ok(ObjString(l.s \o ToString(r.n)))
              [] OTHER ->
                   /\ ~call.res.ok
                   /\ call.res.err.interrupt = "None"
                   /\ environments = call.pre

\* 1 + "x" raised a RuntimeError.
C16_Witness ==
    /\ call.op = "eval"
    /\ call.expr = ExprBinaryOp(Loc0, NumE(1), "Add", ExprString(Loc0, "x"))
    /\ ~call.res.ok

\* "x" + 1 is "x1".
C16_WitnessConcat ==
    /\ call.op = "eval"
    /\ call.expr = ExprBinaryOp(Loc0, ExprString(Loc0, "x"), "Add", NumE(1))
    /\ call.res = Ok(ObjString("x1"))

\* C17: the token list of a successful scan is not empty, its last token is
\* EOF and no token before the last is EOF.
C17_EOFTerminated ==
    (lexed # None /\ lexed[1].ok) =>
        LET tokens == lexed[1].value
        IN  /\ Len(tokens) >= 1
            /\ tokens[Len(tokens)].token_type = "EOF"
            /\ \A i \in 1..(Len(tokens) - 1) : tokens[i].token_type # "EOF"

\* A successful scan of several tokens.
C17_Witness ==
    /\ lexed # None
    /\ lexed[1].ok
    /\ Len(lexed[1].value) >= 4
    /\ lexed[1].value[Len(lexed[1].value)].token_type = "EOF"

\* The successful scan of the empty line.
C17_WitnessEmpty ==
    /\ lexed # None
    /\ lexed[1].ok
    /\ scanner.source = <<>>
    /\ Len(lexed[1].value) = 1

(***************************************************************************)
(* TokenStream.                                                            *)
(***************************************************************************)
\* C18: consume(expected) advances the cursor only when the type of the next
\* token is in expected; when it is not, EOF included, consume returns
\* Err("expected one of ...") with the line and column of that next token
\* and the cursor stays where it was.
C18_ConsumeFrame ==
    call.op = "consume" =>
        LET token == call.pre.tokens[call.pre.index + 1]
        IN  IF Contains(call.token_types, token.token_type)
            THEN /\ call.res = Ok(token)
                 /\ token_stream.index = call.pre.index + 1
            ELSE /\ ~call.res.ok
                 /\ call.res.err.msg = "expected one of " \o DebugList(call.token_types)
                 /\ call.res.err.line = token.line
                 /\ call.res.err.column = token.column
                 /\ token_stream.index = call.pre.index

\* What consume does when the type of the next token is not in expected:
\* before EOF the cursor has advanced over the token and the Err carries its
\* location; at EOF the cursor stays and the Err carries line 0, column 0.
C18_ConsumeAdvances ==
    call.op = "consume" =>
        LET token == call.pre.tokens[call.pre.index + 1]
        IN  /\ token_stream.tokens = call.pre.tokens
            /\ IF token.token_type = "EOF"
               THEN /\ ~call.res.ok
                    /\ call.res.err.line = 0 /\ call.res.err.column = 0
                    /\ token_stream.index = call.pre.index
               ELSE /\ token_stream.index = call.pre.index + 1
                    /\ IF Contains(call.token_types, token.token_type)
                       THEN call.res = Ok(token)
                       ELSE /\ ~call.res.ok
                            /\ call.res.err.line = token.line
                            /\ call.res.err.column = token.column

C18_Witness ==
    /\ call.op = "consume"
    /\ ~call.res.ok
    /\ call.pre.index = 1
    /\ token_stream.index = 2

(***************************************************************************)
(* The desugaring of for.                                                  *)
(***************************************************************************)
\* stmt is Block[init, While(cond, Block[body, incr])] restricted to the
\* clauses that are present, for init `a=1`, cond `false`, incr `a=2` and
\* body `1`; the condition is the literal true when cond is omitted.
IsDesugaredFor(stmt, hasInit, hasCond, hasIncr) ==
    LET loop == IF hasInit /\ stmt.kind = "Block" /\ Len(stmt.exprs) = 2
                THEN stmt.exprs[2] ELSE stmt
    IN  /\ hasInit =>
              /\ stmt.kind = "Block"
              /\ Len(stmt.exprs) = 2
              /\ stmt.exprs[1].kind = "Assign"
              /\ stmt.exprs[1].e.kind = "Number" /\ stmt.exprs[1].e.n = 1
        /\ loop.kind = "While"
        /\ loop.cond.kind = "Boolean"
        /\ loop.cond.b = ~hasCond
        /\ IF hasIncr
           THEN /\ loop.body.kind = "Block"
                /\ Len(loop.body.exprs) = 2
                /\ loop.body.exprs[1].kind = "Number"
                /\ loop.body.exprs[2].kind = "Assign"
                /\ loop.body.exprs[2].e.kind = "Number" /\ loop.body.exprs[2].e.n = 2
           ELSE loop.body.kind = "Number"

\* C20: for (init; cond; incr) body, with every combination of present and
\* omitted clauses and one closing parenthesis, parses, and the statement is
\* Block[init, While(cond, Block[body, incr])] restricted to the clauses
\* that are present, with the literal true for an omitted cond.
C20_ForDesugars ==
    \A init \in {<<>>, ForInit}, cond \in {<<>>, ForCond}, incr \in {<<>>, ForIncr} :
        (parsed # None /\ scanner.source = ForSource(init, cond, incr)) =>
            /\ parsed[1].res.ok
            /\ parsed[1].res.value.kind = "Program"
            /\ Len(parsed[1].res.value.exprs) = 1
            /\ IsDesugaredFor(parsed[1].res.value.exprs[1],
                              init # <<>>, cond # <<>>, incr # <<>>)

\* What holds: with incr present the line parses to the desugaring; with incr
\* omitted the one closing parenthesis is taken by match_token and the line is
\* a parse error, "expected one of [RightParen]".
C20_ForNeedsIncrement ==
    \A init \in {<<>>, ForInit}, cond \in {<<>>, ForCond}, incr \in {<<>>, ForIncr} :
        (parsed # None /\ scanner.source = ForSource(init, cond, incr)) =>
            IF incr # <<>>
            THEN /\ parsed[1].res.ok
                 /\ Len(parsed[1].res.value.exprs) = 1
                 /\ IsDesugaredFor(parsed[1].res.value.exprs[1],
                                   init # <<>>, cond # <<>>, TRUE)
            ELSE /\ ~parsed[1].res.ok
                 /\ parsed[1].res.err[1].msg = "expected one of [RightParen]"

\* The full form, parsed.
C20_Witness ==
    /\ parsed # None
    /\ scanner.source = ForSource(ForInit, ForCond, ForIncr)
    /\ parsed[1].res.ok

\* With incr omitted the header is accepted with two closing parentheses.
C20_WitnessTwoParens ==
    /\ parsed # None
    /\ scanner.source = SrcForTwoParens
    /\ parsed[1].res.ok
    /\ IsDesugaredFor(parsed[1].res.value.exprs[1], FALSE, TRUE, FALSE)

(***************************************************************************)
(* The literal of a string token.                                          *)
(***************************************************************************)
\* The escapes read from left to right: \t, \n, \r are the control
\* characters, \\ is one backslash, and the backslash of any other pair is a
\* double quote.
RECURSIVE EscapesOf(_)
EscapesOf(chars) ==
    IF chars = <<>> THEN <<>>
    ELSE IF Head(chars) = "\\" /\ Len(chars) >= 2
    THEN CASE chars[2] = "t" -> <<"\t">> \o EscapesOf(SubSeq(chars, 3, Len(chars)))
           [] chars[2] = "n" -> <<"\n">> \o EscapesOf(SubSeq(chars, 3, Len(chars)))
           [] chars[2] = "r" -> <<"\r">> \o EscapesOf(SubSeq(chars, 3, Len(chars)))
           [] chars[2] = "\\" -> <<"\\">> \o EscapesOf(SubSeq(chars, 3, Len(chars)))
           [] OTHER -> <<"\"">> \o EscapesOf(Tail(chars))
    ELSE <<Head(chars)>> \o EscapesOf(Tail(chars))

\* C21: the literal of a scanned string token is the body with \t, \n, \r
\* turned into tab, newline and carriage return, \\ into one backslash, and
\* the backslash before any other character into a double quote, for every
\* body, also one where an escaped backslash is followed by t, n or r.
C21_StringEscapes ==
    \A body \in StringBodies :
        (lexed # None /\ scanner.source = Quoted(body)) =>
            /\ lexed[1].ok
            /\ lexed[1].value[1].token_type = "String"
            /\ lexed[1].value[1].literal = LitString(Text(EscapesOf(body)))

\* What holds: the literal is as C21 says for a body without \; the
\* backslash that \\ yields is then turned into a double quote, and in \\t
\* and \\n the second backslash is paired with the letter first.
C21_SingleEscapes ==
    \A body \in StringBodies :
        (lexed # None /\ scanner.source = Quoted(body)) =>
            /\ lexed[1].ok
            /\ lexed[1].value[1].token_type = "String"
            /\ lexed[1].value[1].literal =
                 IF body = <<"\\", "\\">> THEN LitString("\"")
                 ELSE IF body = <<"\\", "\\", "t">> THEN LitString("\"\t")
                 ELSE IF body = <<"\\", "\\", "n">> THEN LitString("\"\n")
                 ELSE LitString(Text(EscapesOf(body)))

C21_Witness ==
    /\ lexed # None
    /\ scanner.source = Quoted(<<"\\", "q">>)
    /\ lexed[1].ok
    /\ lexed[1].value[1].literal = LitString("\"q")

(***************************************************************************)
(* The scanner's line counter.                                             *)
(***************************************************************************)
\* The number of line terminators in chars: every \n ends a line, alone or
\* after \r.
RECURSIVE LineTerminators(_)
LineTerminators(chars) ==
    IF chars = <<>> THEN 0
    ELSE (IF Head(chars) = "\n" THEN 1 ELSE 0) + LineTerminators(Tail(chars))

Consumed == SubSeq(scanner.source, 1, scanner.current)

\* C22: after any prefix of the source is consumed, line is 1 plus the number
\* of line terminators in the prefix; the EOF token's line is 1 plus the
\* number of line terminators of the source, also with consecutive empty
\* lines and with newlines inside strings and block comments.
C22_LineCounter ==
    /\ (pc = "scan" /\ ~scanner.panic) =>
           scanner.line = 1 + LineTerminators(Consumed)
    /\ (lexed # None /\ lexed[1].ok) =>
           lexed[1].value[Len(lexed[1].value)].line
               = 1 + LineTerminators(scanner.source)

\* What holds: the count is right where no line terminator follows another
\* one directly outside of a string or comment.
C22_SingleTerminators ==
    scanner.source \in LineSources \ {SrcEmptyLine} =>
        /\ (pc = "scan" /\ ~scanner.panic) =>
               scanner.line = 1 + LineTerminators(Consumed)
        /\ (lexed # None /\ lexed[1].ok) =>
               lexed[1].value[Len(lexed[1].value)].line
                   = 1 + LineTerminators(scanner.source)

C22_Witness ==
    /\ scanner.source = SrcCommentEmptyLine
    /\ lexed # None
    /\ lexed[1].ok
    /\ lexed[1].value[Len(lexed[1].value)].line = 3

(***************************************************************************)
(* Nested block comments.                                                  *)
(***************************************************************************)
\* The number of characters of chars up to the end of the comment whose
\* opening has been read, with i characters read and the nesting at depth:
\* the position after the */ that closes the outermost comment, or the whole
\* length when there is none.
RECURSIVE NestingEnd(_, _, _)
NestingEnd(chars, i, depth) ==
    IF depth = 0 \/ i >= Len(chars) THEN i
    ELSE IF i + 2 <= Len(chars) /\ chars[i + 1] = "/" /\ chars[i + 2] = "*"
    THEN NestingEnd(chars, i + 2, depth + 1)
    ELSE IF i + 2 <= Len(chars) /\ chars[i + 1] = "*" /\ chars[i + 2] = "/"
    THEN NestingEnd(chars, i + 2, depth - 1)
    ELSE NestingEnd(chars, i + 1, depth)

\* The depth left at the end of the source.
RECURSIVE NestingLeft(_, _, _)
NestingLeft(chars, i, depth) ==
    IF depth = 0 \/ i >= Len(chars) THEN depth
    ELSE IF i + 2 <= Len(chars) /\ chars[i + 1] = "/" /\ chars[i + 2] = "*"
    THEN NestingLeft(chars, i + 2, depth + 1)
    ELSE IF i + 2 <= Len(chars) /\ chars[i + 1] = "*" /\ chars[i + 2] = "/"
    THEN NestingLeft(chars, i + 2, depth - 1)
    ELSE NestingLeft(chars, i + 1, depth)

\* C23: a block comment nests: the Comment token ends exactly after the */
\* that brings the depth, 1 after the opening /*, back to 0, and the scan goes
\* on from there; when the input ends first the scan is Ok with one Comment
\* token up to the end of the input and EOF.
C23_BlockCommentsNest ==
    \A source \in CommentSources :
        (lexed # None /\ scanner.source = source) =>
            LET end == NestingEnd(source, 2, 1)
                tokens == lexed[1].value
            IN  /\ lexed[1].ok
                /\ tokens[1].token_type = "Comment"
                /\ tokens[1].lexeme = Text(SubSeq(source, 1, end))
                /\ NestingLeft(source, 2, 1) > 0 =>
                       /\ end = Len(source)
                       /\ Len(tokens) = 2
                       /\ tokens[2].token_type = "EOF"
                /\ end < Len(source) =>
                       /\ Len(tokens) = 3
                       /\ tokens[2].token_type = "Number"
                       /\ tokens[3].token_type = "EOF"

C23_Witness ==
    /\ scanner.source = SrcCommentNested
    /\ lexed # None
    /\ lexed[1].ok
    /\ lexed[1].value[1].lexeme = "/*/*a*/*/"
    /\ lexed[1].value[2].token_type = "Number"

C23_WitnessOpen ==
    /\ scanner.source = SrcCommentInnerClosed
    /\ lexed # None
    /\ lexed[1].ok
    /\ Len(lexed[1].value) = 2
    /\ lexed[1].value[1].lexeme = "/*/*a*/1"

(***************************************************************************)
(* The conditional and the null-coalescing statement.                      *)
(***************************************************************************)
\* C24: a ? b : c parses to If(a, b, c), a ? b to If(a, b) without else, and
\* a ?? b to If(a == nil, b, a); true ? 1 : 2 evaluates to 1 and false ? 1
\* to Nil.
C24_TernaryAndCoalesce ==
    \A source \in TernarySources :
        (lexed # None /\ scanner.source = source) =>
            /\ lexed[1].ok
            /\ parsed # None =>
                   /\ parsed[1].res.ok
                   /\ Len(parsed[1].res.value.exprs) = 1
                   /\ LET stmt == parsed[1].res.value.exprs[1]
                      IN  /\ stmt.kind = "If"
                          /\ source = SrcTernary =>
                                 /\ stmt.cond.kind = "Variable" /\ stmt.cond.name = "a"
                                 /\ stmt.then.kind = "Variable" /\ stmt.then.name = "b"
                                 /\ stmt.else_ # None
                                 /\ stmt.else_[1].kind = "Variable"
                                 /\ stmt.else_[1].name = "c"
                          /\ source = SrcTernaryNoElse => stmt.else_ = None
                          /\ source = SrcCoalesce =>
                                 /\ stmt.cond.kind = "BinaryOp" /\ stmt.cond.op = "Eq"
                                 /\ stmt.cond.e1.kind = "Variable"
                                 /\ stmt.cond.e2.kind = "Nil"
                                 /\ stmt.then.kind = "Variable" /\ stmt.then.name = "b"
                                 /\ stmt.else_ # None
                                 /\ stmt.else_[1] = stmt.cond.e1
            /\ (pc = "done" /\ source = SrcTernaryTrue) =>
                   call.op = "eval" /\ call.res = Ok(ObjNumber(1))
            /\ (pc = "done" /\ source = SrcTernaryNoElse) =>
                   call.op = "eval" /\ call.res = Ok(ObjNil)

\* What holds: none of these lines reaches the parser; the scan stops at the
\* question mark.
C24_QuestionMarkNotScanned ==
    \A source \in TernarySources :
        (lexed # None /\ scanner.source = source) =>
            /\ ~lexed[1].ok
            /\ lexed[1].err.msg = "unknown token type"
            /\ parsed = None
            /\ pc = "idle"

C24_Witness ==
    /\ scanner.source = SrcTernaryTrue
    /\ lexed # None
    /\ ~lexed[1].ok

(***************************************************************************)
(* Precedence and associativity of the binary operators.                   *)
(***************************************************************************)
IsNumber(e, n) == e.kind = "Number" /\ e.n = n

IsBinary(e, op) == e.kind = "BinaryOp" /\ e.op = op

\* The tree the grammar prescribes for 1 o1 2 o2 3: o2 takes 2 when it
\* binds tighter than o1, and the operators group from the left otherwise.
IsChainTree(e, o1, o2) ==
    IF o2.level > o1.level
    THEN /\ IsBinary(e, o1.op)
         /\ IsNumber(e.e1, 1)
         /\ IsBinary(e.e2, o2.op)
         /\ IsNumber(e.e2.e1, 2)
         /\ IsNumber(e.e2.e2, 3)
    ELSE /\ IsBinary(e, o2.op)
         /\ IsBinary(e.e1, o1.op)
         /\ IsNumber(e.e1.e1, 1)
         /\ IsNumber(e.e1.e2, 2)
         /\ IsNumber(e.e2, 3)

C25_WitnessTighter ==
    /\ parsed # None
    /\ scanner.source = <<"1", "+", "2", "*", "3">>
    /\ parsed[1].res.ok
    /\ IsBinary(parsed[1].res.value.exprs[1], "Add")
    /\ IsBinary(parsed[1].res.value.exprs[1].e2, "Mul")

(***************************************************************************)
(* Assignment.                                                             *)
(***************************************************************************)
IsChainedAssign(stmt) ==
    /\ stmt.kind = "Assign" /\ stmt.name = "a"
    /\ stmt.e.kind = "Assign" /\ stmt.e.name = "b"
    /\ stmt.e.e.kind = "Number" /\ stmt.e.e.n = 1

IsInvalidTarget(p) ==
    /\ ~p.res.ok
    /\ Len(p.res.err) = 1
    /\ p.res.err[1].msg = "invalid assignment target"

\* C26: assignment groups from the right, a = b = 1 is Assign(a, Assign(b,
\* 1)); an = after anything but a variable (a literal, a grouping, a unary
\* or a binary expression) is the ParserError "invalid assignment target" and
\* no Assign node.
C26_AssignmentTargets ==
    /\ (parsed # None /\ scanner.source = SrcAssignChain) =>
           /\ parsed[1].res.ok
           /\ Len(parsed[1].res.value.exprs) = 1
           /\ IsChainedAssign(parsed[1].res.value.exprs[1])
    /\ \A source \in InvalidTargets :
           (parsed # None /\ scanner.source = source) => IsInvalidTarget(parsed[1])

\* What holds: as C26 but for the literal nil, which is a target: nil = 1
\* parses to Assign("nil", 1).
C26_TargetsButNil ==
    /\ (parsed # None /\ scanner.source = SrcAssignChain) =>
           /\ parsed[1].res.ok
           /\ Len(parsed[1].res.value.exprs) = 1
           /\ IsChainedAssign(parsed[1].res.value.exprs[1])
    /\ \A source \in InvalidTargets \ {SrcAssignNil} :
           (parsed # None /\ scanner.source = source) => IsInvalidTarget(parsed[1])
    /\ (parsed # None /\ scanner.source = SrcAssignNil) =>
           /\ parsed[1].res.ok
           /\ parsed[1].res.value.exprs[1].kind = "Assign"
           /\ parsed[1].res.value.exprs[1].name = "nil"

C26_Witness ==
    /\ parsed # None
    /\ scanner.source = SrcAssignGrouping
    /\ IsInvalidTarget(parsed[1])

(***************************************************************************)
(* The lines of a session.                                                 *)
(***************************************************************************)
\* C27: every line that scans and parses without error is evaluated and its
\* value or runtime error printed, whatever happened to the lines before it:
\* the had_error flag of a failed line never makes a later line be skipped.
C27_ValidLinesEvaluated ==
    pc = "done" =>
        /\ call.op = "eval"
        /\ call.res.ok => output # <<>>

\* What holds: a line that scans and parses is evaluated exactly when
\* had_error is not set when its parse ends, and the flag is reset then; the
\* first line of a session is always evaluated.
C27_SkippedAfterFailure ==
    [][(pc = "run" /\ pc' = "done") =>
           /\ (call'.op = "eval") <=> ~state.had_error
           /\ (call'.op = "skipped") <=> state.had_error
           /\ ~state'.had_error
           /\ state.command_count = 1 => ~state.had_error]_vars

C27_Witness ==
    /\ pc = "done"
    /\ state.command_count = 2
    /\ parsed # None
    /\ parsed[1].res.ok
    /\ call.op = "skipped"

(***************************************************************************)
(* The line of an error.                                                   *)
(***************************************************************************)
InSource(line) == line >= 1 /\ line <= SplitLines(scanner.source)

\* C28: every error of scan, parse and eval has a line between 1 and the
\* number of lines of the source, so that the report of it, which reads the
\* line at line - 1, returns; also the errors of consume at the end of the
\* input.
C28_ErrorLinesInSource ==
    /\ (lexed # None /\ ~lexed[1].ok) => InSource(lexed[1].err.line)
    /\ (parsed # None /\ ~parsed[1].res.ok) =>
           \A i \in 1..Len(parsed[1].res.err) : InSource(parsed[1].res.err[i].line)
    /\ (pc = "done" /\ call.op = "eval" /\ ~call.res.ok) =>
           InSource(call.res.err.line)
    /\ ~(pc = "panic" /\ lexed # None)

\* What holds: the errors of the scanner have a line of 1 or more, the
\* errors of eval a line of the source, and the errors of the parser a line of
\* the source or the line 0 of consume and parse_primary at the end of the
\* input; the report panics exactly on the errors outside the source.
C28_LineZeroAtEnd ==
    /\ (lexed # None /\ ~lexed[1].ok) => lexed[1].err.line >= 1
    /\ (parsed # None /\ ~parsed[1].res.ok) =>
           \A i \in 1..Len(parsed[1].res.err) :
               InSource(parsed[1].res.err[i].line) \/ parsed[1].res.err[i].line = 0
    /\ (pc = "done" /\ call.op = "eval" /\ ~call.res.ok) =>
           InSource(call.res.err.line)
    /\ (pc = "panic" /\ lexed # None) <=>
           \/ lexed # None /\ ~lexed[1].ok /\ ~InSource(lexed[1].err.line)
           \/ /\ parsed # None /\ ~parsed[1].res.ok
              /\ \E i \in 1..Len(parsed[1].res.err) :
                     ~InSource(parsed[1].res.err[i].line)

C28_Witness ==
    /\ scanner.source = SrcOpenParen
    /\ parsed # None
    /\ ~parsed[1].res.ok
    /\ parsed[1].res.err[1].line = 0
    /\ pc = "panic"

C28_WitnessBeyond ==
    /\ scanner.source = SrcCarriageReturn
    /\ lexed # None
    /\ ~lexed[1].ok
    /\ lexed[1].err.line = 2
    /\ pc = "panic"

(***************************************************************************)
(* EnvironmentStack::delete.                                               *)
(***************************************************************************)
\* C29: delete(name), when the innermost scope defines name, removes the
\* binding from the innermost scope only and returns Ok; when the innermost
\* scope does not define name it returns Err and changes nothing, also when an
\* outer scope defines name.
C29_DeleteInnermost ==
    call.op = "delete" =>
        LET top == Len(call.pre)
        IN  IF call.name \in DOMAIN call.pre[top]
            THEN /\ call.res.ok
                 /\ Len(environments) = top
                 /\ environments[top] = MapRemove(call.pre[top], call.name)
                 /\ \A i \in 1..(top - 1) : environments[i] = call.pre[i]
            ELSE /\ ~call.res.ok
                 /\ environments = call.pre

\* What holds: the effect on the scopes is as C29 says, and the result is an
\* Err in both cases: after the removal delete returns get(name) of the
\* innermost scope, which no longer defines name.
C29_DeleteReturnsErr ==
    call.op = "delete" =>
        LET top == Len(call.pre)
        IN  /\ ~call.res.ok
            /\ IF call.name \in DOMAIN call.pre[top]
               THEN /\ call.res.err.msg = "variable " \o call.name \o " not defined"
                    /\ Len(environments) = top
                    /\ environments[top] = MapRemove(call.pre[top], call.name)
                    /\ \A i \in 1..(top - 1) : environments[i] = call.pre[i]
               ELSE /\ call.res.err.msg = "undefined variable: " \o call.name
                    /\ environments = call.pre

C29_Witness ==
    /\ call.op = "delete"
    /\ Len(call.pre) >= 2
    /\ call.name \in DOMAIN call.pre[Len(call.pre)]
    /\ call.name \in DOMAIN call.pre[1]
    /\ call.name \notin DOMAIN environments[Len(environments)]
    /\ call.name \in DOMAIN environments[1]

(***************************************************************************)
(* The cursor of the parser.                                               *)
(***************************************************************************)
\* The index of the EOF token of the scanned line.
EOFIndex == Len(lexed[1].value) - 1

IsIteration(mark) == mark.point \in {"parse_program", "parse_stmt_block"}

\* The number of blocks opened in the scanned line.
OpenedBlocks == Cardinality({k \in 1..Len(lexed[1].value) :
                            lexed[1].value[k].token_type = "LeftBrace"})

\* C30: parse returns, Ok or Err, on the token list of every scanned line
\* and the cursor is never beyond the EOF token: every iteration of the
\* statement loops of parse_program and parse_stmt_block starts further than
\* the iterations before it or, at the EOF token, ends its loop (parse_program
\* has no iteration there, and each block at most one), and every synchronize
\* call advances the cursor unless it is at the EOF token.
C30_ParseTerminates ==
    /\ (lexed # None /\ lexed[1].ok /\ pc # "parse") => parsed # None
    /\ parsed # None =>
           LET marks == parsed[1].marks
           IN  /\ parsed[1].index <= EOFIndex
               /\ \A i \in 1..Len(marks) : marks[i].index <= EOFIndex
               /\ \A i \in 1..Len(marks), j \in 1..Len(marks) :
                      (i < j /\ IsIteration(marks[i]) /\ IsIteration(marks[j])) =>
                          \/ marks[i].index < marks[j].index
                          \/ marks[j].index = EOFIndex
               /\ \A i \in 1..Len(marks) :
                      marks[i].point = "parse_program" => marks[i].index < EOFIndex
               /\ Cardinality({i \in 1..Len(marks) :
                                   /\ marks[i].point = "parse_stmt_block"
                                   /\ marks[i].index = EOFIndex}) <= OpenedBlocks
               /\ \A i \in 1..Len(marks) :
                      marks[i].point = "synchronize" =>
                          /\ i < Len(marks)
                          /\ marks[i + 1].point = "synchronized"
                          /\ \/ marks[i + 1].index > marks[i].index
                             \/ marks[i].index = EOFIndex

\* {+;1} is parsed: two iterations of the block's loop and a synchronize
\* call that stops at the semicolon.
C30_Witness ==
    /\ scanner.source = SrcBlockError
    /\ parsed # None
    /\ \E i \in 1..Len(parsed[1].marks) :
           /\ parsed[1].marks[i].point = "synchronize"
           /\ parsed[1].marks[i + 1].index > parsed[1].marks[i].index
    /\ \E i, j \in 1..Len(parsed[1].marks) :
           /\ i < j
           /\ parsed[1].marks[i].point = "parse_stmt_block"
           /\ parsed[1].marks[j].point = "parse_stmt_block"

\* { ends at the EOF token: the cursor stays on it.
C30_WitnessAtEnd ==
    /\ scanner.source = SrcBlockOpenError
    /\ parsed # None
    /\ ~parsed[1].res.ok
    /\ parsed[1].index = EOFIndex
    /\ \E i \in 1..Len(parsed[1].marks) :
           /\ parsed[1].marks[i].point = "synchronize"
           /\ parsed[1].marks[i].index = EOFIndex

====
